---- MODULE Spec2Model ----
(***************************************************************************)
(* Model of the edit command of the CLI (handleEditCommand,                *)
(* analyzeAndGenerateEdits, applyEdits, handleEditWithGit) and of its      *)
(* analyze command (analyzeCommand, analyzeCodebase, analyzeFile,          *)
(* getCodeFiles, displayResults).                                          *)
(*                                                                         *)
(* Text is modelled at two levels.  File content is a sequence of          *)
(* characters, the newline being the character NL; a line is a sequence of *)
(* characters without NL.  Oracle text is a sequence of tokens (prose,     *)
(* code fences, braces, the body of a JSON object).                        *)
(***************************************************************************)
EXTENDS Integers, Sequences, FiniteSets, TLC

\* ------------------------------------------------------------------ bounds
MaxLines == 5
MaxSuggestions == 2
MaxContentLen == 4
MaxOracleSuggestions == 2
MaxContextFiles == 3

NL == "\n"

VARIABLES
    pc,                 \* position of the running function
    currentContent,     \* handleEditCommand: const currentContent
    lines,              \* handleEditCommand: const lines / applyEdits: lines
    suggestions,        \* applyEdits: parameter suggestions
    sortedSuggestions,  \* applyEdits: const sortedSuggestions
    modifiedLines,      \* applyEdits: let modifiedLines
    k,                  \* applyEdits: number of suggestions the for loop has processed
    result,             \* applyEdits: the returned string (modifiedContent)
    fileExt,            \* path.extname(filePath)
    options,            \* handleEditCommand: options
    hasConfig,          \* config.getContentGeneratorConfig() returns a configuration
    fs,                 \* the file system: the target file and the backups written
    response,           \* what client.generateContent gave
    analysis,           \* handleEditCommand: const analysis
    shouldApply,        \* handleEditCommand: let shouldApply
    confirmCalls,       \* number of calls of confirmProceed
    sessionSaved,       \* saveSession has been called
    target,             \* analyzeCommand: what the target path names
    tree,               \* the entries that exist below the analysed directory
    aopts,              \* analyzeCommand: options
    files,              \* analyzeCodebase: const files
    outcomes,           \* per analysed file: what reading it and the oracle gave
    results,            \* analyzeCodebase: const results
    summary,            \* displayResults: the totals and the averages
    autoFixed,          \* applyAutoFixes: the issues reported as fixed
    contextFiles,       \* analyzeAndGenerateEdits: parameter contextFiles
    contextIndex,       \* number of context files the for loop has processed
    contextContent,     \* analyzeAndGenerateEdits: let contextContent
    promptLanguage,     \* const language of the prompt built last
    calls,              \* the oracle invocations made, by index of the file
    pending,            \* the oracle invocations that have not settled
    git                 \* handleEditWithGit: options, position, commands run

applyOnly == <<sortedSuggestions, modifiedLines, k>>

editOnly == <<fileExt, options, hasConfig, fs, response, analysis, shouldApply,
              confirmCalls, sessionSaved>>

analyzeOnly == <<target, tree, aopts, files, outcomes, results, summary, autoFixed>>

requestOnly == <<contextFiles, contextIndex, contextContent, promptLanguage, calls,
                 pending>>

vars == <<pc, currentContent, lines, suggestions, sortedSuggestions,
          modifiedLines, k, result, fileExt, options, hasConfig, fs, response,
          analysis, shouldApply, confirmCalls, sessionSaved, target, tree, aopts,
          files, outcomes, results, summary, autoFixed, contextFiles,
          contextIndex, contextContent, promptLanguage, calls, pending, git>>

\* handleEditWithGit is not running.
NoGit ==
    [active |-> FALSE,
     opts |-> [createBranch |-> FALSE, commitMessage |-> FALSE, pushRemote |-> FALSE],
     log |-> <<>>]

\* displayResults has not computed its summary.
NoSummary ==
    [computed |-> FALSE, totalIssues |-> 0, totalSuggestions |-> 0,
     sumComplexity |-> 0, sumMaintainability |-> 0, count |-> 0]

\* ------------------------------------------------------- string operations
Min(a, b) == IF a < b THEN a ELSE b
Max(a, b) == IF a > b THEN a ELSE b

\* String.prototype.split('\n'): the pieces between the separators; a string
\* without separator (the empty string too) gives one piece.
RECURSIVE Split(_)
Split(s) ==
    IF \A i \in 1..Len(s) : s[i] # NL
    THEN <<s>>
    ELSE LET i == CHOOSE j \in 1..Len(s) :
                      s[j] = NL /\ \A h \in 1..(j - 1) : s[h] # NL
         IN <<SubSeq(s, 1, i - 1)>> \o Split(SubSeq(s, i + 1, Len(s)))

\* Mutant of Join: a separator after every element, the last one too.
RECURSIVE JoinTerminated(_)
JoinTerminated(ls) ==
    IF Len(ls) = 0 THEN <<>> ELSE ls[1] \o <<NL>> \o JoinTerminated(Tail(ls))

\* Array.prototype.join('\n'): the elements with one separator between
\* neighbours; the empty array gives the empty string.
RECURSIVE Join(_)
Join(ls) ==
    IF Len(ls) = 0 THEN <<>>
    ELSE IF Len(ls) = 1 THEN ls[1]
    ELSE ls[1] \o <<NL>> \o Join(Tail(ls))

\* Array.prototype.splice(start, deleteCount, ...items) on a copy: start is
\* 0-based and is clamped to the array, deleteCount is clamped to what is left.
Splice(arr, start, deleteCount, items) ==
    LET len == Len(arr)
        actualStart == IF start < 0 THEN Max(len + start, 0) ELSE Min(start, len)
        actualDelete == Min(Max(deleteCount, 0), len - actualStart)
    IN SubSeq(arr, 1, actualStart) \o items
           \o SubSeq(arr, actualStart + actualDelete + 1, len)

\* ----------------------------------------------------------- applyEdits
\* Mutant of SortDescending: the comparator reversed (a.startLine - b.startLine).
RECURSIVE SortAscending(_)
SortAscending(S) ==
    IF Len(S) = 0 THEN <<>>
    ELSE LET x == S[Len(S)]
             T == SortAscending(SubSeq(S, 1, Len(S) - 1))
             p == Cardinality({i \in 1..Len(T) : T[i].startLine <= x.startLine})
         IN SubSeq(T, 1, p) \o <<x>> \o SubSeq(T, p + 1, Len(T))

\* Mutant of SortDescending: the sort left out, the input order kept.
SortOmitted(S) == S

\* [...suggestions].sort((a, b) => b.startLine - a.startLine): a stable sort,
\* descending startLine, equal startLines keep their input order.
RECURSIVE SortDescending(_)
SortDescending(S) ==
    IF Len(S) = 0 THEN <<>>
    ELSE LET x == S[Len(S)]
             T == SortDescending(SubSeq(S, 1, Len(S) - 1))
             p == Cardinality({i \in 1..Len(T) : T[i].startLine >= x.startLine})
         IN SubSeq(T, 1, p) \o <<x>> \o SubSeq(T, p + 1, Len(T))

\* Mutant of InRange: the upper bound of the range is not checked.
InRangeNoUpperBound(ml, s) ==
    LET startIdx == s.startLine - 1
        endIdx == s.endLine - 1
    IN startIdx >= 0 /\ startIdx <= endIdx

\* Mutant of InRange: the end index may equal the number of lines.
InRangeInclusiveEnd(ml, s) ==
    LET startIdx == s.startLine - 1
        endIdx == s.endLine - 1
    IN startIdx >= 0 /\ endIdx <= Len(ml) /\ startIdx <= endIdx

\* Mutant of InRange: the range must also hold the lines of originalLines.
InRangeAndOriginalMatches(ml, s) ==
    LET startIdx == s.startLine - 1
        endIdx == s.endLine - 1
    IN /\ startIdx >= 0 /\ endIdx < Len(ml) /\ startIdx <= endIdx
       /\ SubSeq(ml, s.startLine, s.endLine) = s.originalLines

\* The bounds check of the loop body, on 0-based indices.
InRange(ml, s) ==
    LET startIdx == s.startLine - 1
        endIdx == s.endLine - 1
    IN startIdx >= 0 /\ endIdx < Len(ml) /\ startIdx <= endIdx

\* One iteration of the for loop of applyEdits.
EditStep(ml, s) ==
    LET startIdx == s.startLine - 1
        endIdx == s.endLine - 1
    IN IF InRange(ml, s)
       THEN Splice(ml, startIdx, endIdx - startIdx + 1, s.suggestedLines)
       ELSE ml

RECURSIVE EditAll(_, _)
EditAll(ml, S) ==
    IF Len(S) = 0 THEN ml ELSE EditAll(EditStep(ml, Head(S)), Tail(S))

\* applyEdits as the function handleEditCommand calls.
ApplyEdits(ls, S) == Join(EditAll(ls, SortDescending(S)))

\* ------------------------------------------------------ JavaScript values
\* A value of a parsed JSON member: its kind and, by kind, a number, a string
\* or a list.
Undef == [kind |-> "undefined", num |-> 0, str |-> "", list |-> <<>>]
Num(n) == [kind |-> "number", num |-> n, str |-> "", list |-> <<>>]
Str(t) == [kind |-> "string", num |-> 0, str |-> t, list |-> <<>>]
List(l) == [kind |-> "list", num |-> 0, str |-> "", list |-> l]

\* The object {} : every member of FileAnalysis is undefined.
EmptyObject ==
    [language |-> Undef, complexity |-> Undef, suggestions |-> Undef,
     risks |-> Undef, dependencies |-> Undef]

\* ------------------------------------------------------------ oracle text
\* The tokens of an oracle text.  A body token stands for the members written
\* between the outer braces of one JSON object (nested braces included).
Tok(t) == [t |-> t, body |-> EmptyObject]
BodyTok(o) == [t |-> "body", body |-> o]
PROSE == Tok("prose")
BLANK == Tok("blank")
FENCE_OPEN == Tok("fenceOpen")
FENCE_CLOSE == Tok("fenceClose")
LBRACE == Tok("{")
RBRACE == Tok("}")
NULL == Tok("null")

NoResponse == [kind |-> "none", text |-> <<>>]

\* analysisText.replace(fence pattern, empty string) with the g flag: every
\* opening fence (three backquotes, json, optional newline) and every closing
\* fence (optional newline, three backquotes) is removed.
StripFences(text) ==
    SelectSeq(text, LAMBDA tk : tk # FENCE_OPEN /\ tk # FENCE_CLOSE)

\* String.prototype.trim: the white space at both ends is removed.
RECURSIVE Trim(_)
Trim(text) ==
    IF Len(text) > 0 /\ text[1] = BLANK THEN Trim(Tail(text))
    ELSE IF Len(text) > 0 /\ text[Len(text)] = BLANK
         THEN Trim(SubSeq(text, 1, Len(text) - 1))
    ELSE text

\* JSON.parse: the whole text must be one JSON document (white space around it
\* allowed); anything else is a SyntaxError.
JSONParse(text) ==
    LET u == Trim(text)
    IN IF Len(u) = 3 /\ u[1] = LBRACE /\ u[2].t = "body" /\ u[3] = RBRACE
       THEN [ok |-> TRUE, null |-> FALSE, obj |-> u[2].body]
       ELSE IF u = <<LBRACE, RBRACE>>
       THEN [ok |-> TRUE, null |-> FALSE, obj |-> EmptyObject]
       ELSE IF u = <<NULL>>
       THEN [ok |-> TRUE, null |-> TRUE, obj |-> EmptyObject]
       ELSE [ok |-> FALSE, null |-> FALSE, obj |-> EmptyObject]

\* ------------------------------------------------ getLanguageFromExtension
UpperCase == <<"A", "B", "C", "D", "E", "F", "G", "H", "I", "J", "K", "L", "M",
               "N", "O", "P", "Q", "R", "S", "T", "U", "V", "W", "X", "Y", "Z">>
LowerCase == <<"a", "b", "c", "d", "e", "f", "g", "h", "i", "j", "k", "l", "m",
               "n", "o", "p", "q", "r", "s", "t", "u", "v", "w", "x", "y", "z">>

\* String.prototype.toLowerCase on a sequence of characters.
ToLowerCase(ext) ==
    [i \in 1..Len(ext) |->
        IF \E j \in 1..Len(UpperCase) : UpperCase[j] = ext[i]
        THEN LowerCase[CHOOSE j \in 1..Len(UpperCase) : UpperCase[j] = ext[i]]
        ELSE ext[i]]

\* languageMap of the edit command.
LanguageMap ==
    (<<".", "j", "s">> :> "javascript") @@ (<<".", "j", "s", "x">> :> "javascript")
    @@ (<<".", "t", "s">> :> "typescript") @@ (<<".", "t", "s", "x">> :> "typescript")
    @@ (<<".", "p", "y">> :> "python") @@ (<<".", "j", "a", "v", "a">> :> "java")
    @@ (<<".", "c", "p", "p">> :> "cpp") @@ (<<".", "c">> :> "c")
    @@ (<<".", "g", "o">> :> "go") @@ (<<".", "r", "s">> :> "rust")
    @@ (<<".", "p", "h", "p">> :> "php") @@ (<<".", "r", "b">> :> "ruby")
    @@ (<<".", "c", "s">> :> "csharp") @@ (<<".", "s", "w", "i", "f", "t">> :> "swift")
    @@ (<<".", "k", "t">> :> "kotlin") @@ (<<".", "s", "c", "a", "l", "a">> :> "scala")
    @@ (<<".", "s", "h">> :> "bash") @@ (<<".", "m", "d">> :> "markdown")
    @@ (<<".", "h", "t", "m", "l">> :> "html") @@ (<<".", "c", "s", "s">> :> "css")
    @@ (<<".", "s", "c", "s", "s">> :> "scss") @@ (<<".", "s", "a", "s", "s">> :> "sass")
    @@ (<<".", "j", "s", "o", "n">> :> "json") @@ (<<".", "y", "a", "m", "l">> :> "yaml")
    @@ (<<".", "y", "m", "l">> :> "yaml") @@ (<<".", "x", "m", "l">> :> "xml")

\* getLanguageFromExtension of the edit command.
GetLanguageFromExtension(ext) ==
    IF ToLowerCase(ext) \in DOMAIN LanguageMap
    THEN LanguageMap[ToLowerCase(ext)]
    ELSE "text"

\* ------------------------------------------------ analyzeAndGenerateEdits
\* Mutant of AcceptSuggestion: the threshold itself is rejected.
AcceptAboveThreshold(s) ==
    s.confidence > 70 /\ Len(s.originalLines) > 0 /\ Len(s.suggestedLines) > 0

\* The predicate of the filter (lines 234-238).
AcceptSuggestion(s) ==
    s.confidence >= 70 /\ Len(s.originalLines) > 0 /\ Len(s.suggestedLines) > 0

\* Mutant of FilterSuggestions: the validation left out.
FilterOmitted(S) == S

\* analysis.suggestions.filter(...).
FilterSuggestions(S) == SelectSeq(S, AcceptSuggestion)

\* Mutant of FallbackAnalysis: the neutral complexity of the quality analysis.
FallbackZeroComplexity(language) ==
    [language |-> Str(language), complexity |-> Num(0), suggestions |-> List(<<>>),
     risks |-> List(<<"Analysis failed - manual review recommended">>),
     dependencies |-> List(<<>>)]

\* The object the catch block returns (lines 247-253).
FallbackAnalysis(language) ==
    [language |-> Str(language), complexity |-> Num(5), suggestions |-> List(<<>>),
     risks |-> List(<<"Analysis failed - manual review recommended">>),
     dependencies |-> List(<<>>)]

\* Lines 211-254: what the try block does with the response of the oracle.  A
\* rejected call, a response without text, a SyntaxError of JSON.parse and a
\* TypeError of analysis.suggestions.filter all end in the catch block.
ParseEditResponse(r, language) ==
    IF r.kind # "text" \/ r.text = <<>>
    THEN FallbackAnalysis(language)
    ELSE LET parsed == JSONParse(Trim(StripFences(r.text)))
         IN IF ~parsed.ok \/ parsed.null \/ parsed.obj.suggestions.kind # "list"
            THEN FallbackAnalysis(language)
            ELSE [parsed.obj EXCEPT
                     !.suggestions = List(FilterSuggestions(parsed.obj.suggestions.list))]

\* Lines 73-81: reading risks and dependencies of the analysis.  x.length of
\* undefined is a TypeError; a non-empty string has a length but no forEach; a
\* number has no length and is passed over.
MemberDisplayThrows(v) ==
    \/ v.kind = "undefined"
    \/ v.kind = "string" /\ v.str # ""

DisplayThrows(a) == MemberDisplayThrows(a.risks) \/ MemberDisplayThrows(a.dependencies)

\* ------------------------------------------------- inputs of applyEdits
Letters == <<"a", "b", "c", "d", "e", "f", "g", "h">>

\* The file of n distinct one-letter lines.
FileLines(n) == [i \in 1..n |-> <<Letters[i]>>]

\* Every string over {a, NL} of at most MaxContentLen characters.
RichContents == UNION {[1..n -> {"a", NL}] : n \in 0..MaxContentLen}

Replacements == { <<>>, << <<"X">> >>, << <<"Y">>, <<"Z">>, <<"W">> >> }

\* The ranges offered for a file of n lines: every range inside the file, and
\* ranges that leave it at either end or are reversed.
RangesFor(n) ==
    {r \in (1..n) \X (1..n) : r[1] <= r[2]}
        \cup {<<0, 1>>, <<2, 1>>, <<n, n + 1>>, <<n + 1, n + 1>>, <<n - 1, n + 1>>}

Suggestion(r, repl, orig, conf) ==
    [startLine |-> r[1], endLine |-> r[2], suggestedLines |-> repl,
     originalLines |-> orig, confidence |-> conf, reasoning |-> "why"]

ApplySuggestions(n) ==
    {Suggestion(r, repl, << <<"a">> >>, 85) : r \in RangesFor(n), repl \in Replacements}

ApplySuggestionLists(n) ==
    UNION {[1..m -> ApplySuggestions(n)] : m \in 0..MaxSuggestions}

\* ------------------------------------------------ applyEdits, step by step
InitApply ==
    /\ pc = "applyEdits"
    /\ \/ \E n \in 1..MaxLines :
              /\ currentContent = Join(FileLines(n))
              /\ suggestions \in ApplySuggestionLists(n)
       \/ /\ currentContent \in RichContents
          /\ suggestions = <<>>
    /\ lines = Split(currentContent)
    /\ sortedSuggestions = <<>>
    /\ modifiedLines = <<>>
    /\ k = 0
    /\ result = <<>>
    /\ fileExt = <<>>
    /\ options = [dryRun |-> FALSE, backup |-> "undefined", autoApply |-> FALSE]
    /\ hasConfig = TRUE
    /\ fs = [exists |-> TRUE, target |-> currentContent, backups |-> <<>>, writes |-> 0]
    /\ response = NoResponse
    /\ analysis = EmptyObject
    /\ shouldApply = FALSE
    /\ confirmCalls = 0
    /\ sessionSaved = FALSE
    /\ target = "none"
    /\ tree = {}
    /\ aopts = [watch |-> FALSE, fix |-> FALSE]
    /\ files = <<>>
    /\ outcomes = <<>>
    /\ results = <<>>
    /\ summary = NoSummary
    /\ autoFixed = <<>>
    /\ contextFiles = <<>>
    /\ contextIndex = 0
    /\ contextContent = <<>>
    /\ promptLanguage = ""
    /\ calls = <<>>
    /\ pending = {}
    /\ git = NoGit

\* Lines 291-294: sort a copy of the suggestions, copy the lines.
ApplySort ==
    /\ pc = "applyEdits"
    /\ sortedSuggestions' = SortDescending(suggestions)
    /\ modifiedLines' = lines
    /\ k' = 0
    /\ pc' = "applyLoop"
    /\ UNCHANGED <<currentContent, lines, suggestions, result>>
    /\ UNCHANGED editOnly
    /\ UNCHANGED analyzeOnly
    /\ UNCHANGED requestOnly
    /\ UNCHANGED git

\* Lines 296-308: one iteration whose range check passes.
ApplySplice ==
    /\ pc = "applyLoop"
    /\ k < Len(sortedSuggestions)
    /\ InRange(modifiedLines, sortedSuggestions[k + 1])
    /\ modifiedLines' = EditStep(modifiedLines, sortedSuggestions[k + 1])
    /\ k' = k + 1
    /\ UNCHANGED <<pc, currentContent, lines, suggestions, sortedSuggestions, result>>
    /\ UNCHANGED editOnly
    /\ UNCHANGED analyzeOnly
    /\ UNCHANGED requestOnly
    /\ UNCHANGED git

\* Lines 296-308: one iteration whose range check fails.
ApplySkip ==
    /\ pc = "applyLoop"
    /\ k < Len(sortedSuggestions)
    /\ ~InRange(modifiedLines, sortedSuggestions[k + 1])
    /\ modifiedLines' = EditStep(modifiedLines, sortedSuggestions[k + 1])
    /\ k' = k + 1
    /\ UNCHANGED <<pc, currentContent, lines, suggestions, sortedSuggestions, result>>
    /\ UNCHANGED editOnly
    /\ UNCHANGED analyzeOnly
    /\ UNCHANGED requestOnly
    /\ UNCHANGED git

\* Line 310: the loop is over, join and return.
ApplyJoin ==
    /\ pc = "applyLoop"
    /\ k = Len(sortedSuggestions)
    /\ result' = Join(modifiedLines)
    /\ pc' = "applyDone"
    /\ UNCHANGED <<currentContent, lines, suggestions, sortedSuggestions,
                   modifiedLines, k>>
    /\ UNCHANGED editOnly
    /\ UNCHANGED analyzeOnly
    /\ UNCHANGED requestOnly
    /\ UNCHANGED git

NextApply == ApplySort \/ ApplySplice \/ ApplySkip \/ ApplyJoin

SpecApply == InitApply /\ [][NextApply]_vars

\* ---------------------------------------------------------- context files
\* What one readable context file adds to contextContent (line 162).
ContextSegment(f) == <<NL, "--- Context: ", f.name, " ---", NL>> \o f.content \o <<NL>>

\* Lines 158-168: the loop over the context files; a file whose readFile
\* rejects is skipped by the empty catch block.
RECURSIVE BuildContext(_)
BuildContext(fs_) ==
    IF Len(fs_) = 0 THEN <<>>
    ELSE (IF Head(fs_).readable THEN ContextSegment(Head(fs_)) ELSE <<>>)
             \o BuildContext(Tail(fs_))

\* The context files offered: two names, each readable or not.
ContextFiles ==
    {[name |-> "ctxA", content |-> <<"a">>, readable |-> rd] : rd \in BOOLEAN}
    \cup {[name |-> "ctxB", content |-> <<"b", NL, "c">>, readable |-> rd] : rd \in BOOLEAN}

ContextFileLists == UNION {[1..n -> ContextFiles] : n \in 0..MaxContextFiles}

\* ----------------------------------------------- inputs of the edit command
XLine == << <<"X">> >>
ALine == << <<"a">> >>

EditContents == {Join(FileLines(3))}

FileExts == {<<".", "T", "S">>, <<".", "z", "z", "z">>}

OptionSets ==
    [dryRun : BOOLEAN, backup : {"true", "false", "undefined"}, autoApply : BOOLEAN]

\* The suggestions the oracle may write: confidence on both sides of the
\* threshold, line arrays empty or not.
OracleSuggestions ==
    {Suggestion(r, repl, orig, conf) :
        r \in {<<1, 1>>, <<2, 3>>}, repl \in {<<>>, XLine},
        orig \in {<<>>, ALine}, conf \in {69, 70}}

OracleSuggestionLists ==
    UNION {[1..m -> OracleSuggestions] : m \in 0..MaxOracleSuggestions}

\* A JSON object of the requested shape.
WellFormed(S) ==
    [language |-> Str("typescript"), complexity |-> Num(3), suggestions |-> List(S),
     risks |-> List(<<"risk">>), dependencies |-> List(<<"dep">>)]

GoodSuggestions == <<Suggestion(<<2, 3>>, XLine, ALine, 85)>>

\* Objects with one member missing or of the wrong kind.
MisshapenObjects ==
    {[WellFormed(GoodSuggestions) EXCEPT ![f] = v] :
        f \in {"suggestions", "risks", "dependencies"},
        v \in {Undef, Str("oops"), Num(7)}}
    \cup {[WellFormed(GoodSuggestions) EXCEPT !.language = v] : v \in {Undef, Num(7)}}
    \cup {[WellFormed(GoodSuggestions) EXCEPT !.complexity = v] : v \in {Undef, Str("oops")}}

ObjectText(o) == <<LBRACE, BodyTok(o), RBRACE>>

Wrappings == {<<>>, <<PROSE>>, <<BLANK>>, <<FENCE_OPEN>>, <<FENCE_CLOSE>>}

OracleTexts ==
    {<<>>, <<PROSE>>, <<NULL>>, <<LBRACE, RBRACE>>, <<PROSE, LBRACE>>}
    \cup {ObjectText(WellFormed(S)) : S \in OracleSuggestionLists}
    \cup {ObjectText(o) : o \in MisshapenObjects}
    \cup {pre \o ObjectText(WellFormed(GoodSuggestions)) \o post :
             pre \in Wrappings, post \in Wrappings}

\* generateContent rejects, resolves without text, or resolves with a text.
OracleResponses ==
    {[kind |-> "rejected", text |-> <<>>], [kind |-> "noText", text |-> <<>>]}
    \cup {[kind |-> "text", text |-> t] : t \in OracleTexts}

\* ------------------------------------------------------ handleEditCommand
Init ==
    /\ pc = "start"
    /\ fileExt \in FileExts
    /\ options \in OptionSets
    /\ hasConfig \in BOOLEAN
    /\ \E exists \in BOOLEAN, c \in EditContents :
           fs = [exists |-> exists, target |-> IF exists THEN c ELSE <<>>,
                 backups |-> <<>>, writes |-> 0]
    /\ currentContent = <<>>
    /\ lines = <<>>
    /\ suggestions = <<>>
    /\ sortedSuggestions = <<>>
    /\ modifiedLines = <<>>
    /\ k = 0
    /\ result = <<>>
    /\ response = NoResponse
    /\ analysis = EmptyObject
    /\ shouldApply = FALSE
    /\ confirmCalls = 0
    /\ sessionSaved = FALSE
    /\ target = "none"
    /\ tree = {}
    /\ aopts = [watch |-> FALSE, fix |-> FALSE]
    /\ files = <<>>
    /\ outcomes = <<>>
    /\ results = <<>>
    /\ summary = NoSummary
    /\ autoFixed = <<>>
    /\ contextFiles \in {<<>>,
                        <<[name |-> "ctxA", content |-> <<"a">>, readable |-> FALSE],
                          [name |-> "ctxB", content |-> <<"b", NL, "c">>,
                           readable |-> TRUE]>>}
    /\ contextIndex = 0
    /\ contextContent = <<>>
    /\ promptLanguage = ""
    /\ calls = <<>>
    /\ pending = {}
    /\ git = NoGit

\* Mutant of EditAccess: the file is not looked for.
EditAccessOmitted ==
    /\ pc = "start"
    /\ pc' = "read"
    /\ UNCHANGED <<currentContent, lines, suggestions, result, fileExt, options,
                   hasConfig, fs, response, analysis, shouldApply, confirmCalls,
                   sessionSaved>>
    /\ UNCHANGED applyOnly
    /\ UNCHANGED analyzeOnly
    /\ UNCHANGED requestOnly
    /\ UNCHANGED git

\* Lines 41-47: fs.access; a missing file ends the process with exit code 1.
EditAccess ==
    /\ pc = "start"
    /\ pc' = IF fs.exists THEN "read" ELSE "exit1"
    /\ UNCHANGED <<currentContent, lines, suggestions, result, fileExt, options,
                   hasConfig, fs, response, analysis, shouldApply, confirmCalls,
                   sessionSaved>>
    /\ UNCHANGED applyOnly
    /\ UNCHANGED analyzeOnly
    /\ UNCHANGED requestOnly
    /\ UNCHANGED git

\* Lines 49-51: read the file, split it into lines.
EditRead ==
    /\ pc = "read"
    /\ currentContent' = fs.target
    /\ lines' = Split(fs.target)
    /\ pc' = "backup"
    /\ UNCHANGED <<suggestions, result, fileExt, options, hasConfig, fs, response,
                   analysis, shouldApply, confirmCalls, sessionSaved>>
    /\ UNCHANGED applyOnly
    /\ UNCHANGED analyzeOnly
    /\ UNCHANGED requestOnly
    /\ UNCHANGED git

\* Mutant of EditBackup: the backup is written only when options.backup is true.
EditBackupOnlyWhenTrue ==
    /\ pc = "backup"
    /\ fs' = IF options.backup = "true"
             THEN [fs EXCEPT !.backups = Append(@, currentContent)]
             ELSE fs
    /\ pc' = "analyze"
    /\ UNCHANGED <<currentContent, lines, suggestions, result, fileExt, options,
                   hasConfig, response, analysis, shouldApply, confirmCalls,
                   sessionSaved>>
    /\ UNCHANGED applyOnly
    /\ UNCHANGED analyzeOnly
    /\ UNCHANGED requestOnly
    /\ UNCHANGED git

\* Lines 53-58: write the backup unless options.backup is false.
EditBackup ==
    /\ pc = "backup"
    /\ fs' = IF options.backup # "false"
             THEN [fs EXCEPT !.backups = Append(@, currentContent)]
             ELSE fs
    /\ pc' = "analyze"
    /\ UNCHANGED <<currentContent, lines, suggestions, result, fileExt, options,
                   hasConfig, response, analysis, shouldApply, confirmCalls,
                   sessionSaved>>
    /\ UNCHANGED applyOnly
    /\ UNCHANGED analyzeOnly
    /\ UNCHANGED requestOnly
    /\ UNCHANGED git

\* Lines 147-151: without a content generator configuration
\* analyzeAndGenerateEdits throws before its try block, and handleEditCommand
\* rejects.
EditAnalyzeNoConfig ==
    /\ pc = "analyze"
    /\ ~hasConfig
    /\ pc' = "threw"
    /\ UNCHANGED <<currentContent, lines, suggestions, result, fileExt, options,
                   hasConfig, fs, response, analysis, shouldApply, confirmCalls,
                   sessionSaved>>
    /\ UNCHANGED applyOnly
    /\ UNCHANGED analyzeOnly
    /\ UNCHANGED requestOnly
    /\ UNCHANGED git

\* Lines 61 and 153-254: the oracle is called and its response is parsed and
\* filtered, or replaced by the fallback.
EditAnalyze ==
    /\ pc = "analyze"
    /\ hasConfig
    /\ promptLanguage' = GetLanguageFromExtension(fileExt)
    /\ contextContent' = BuildContext(contextFiles)
    /\ contextIndex' = Len(contextFiles)
    /\ calls' = Append(calls, 1)
    /\ \E r \in OracleResponses :
           /\ response' = r
           /\ analysis' = ParseEditResponse(r, GetLanguageFromExtension(fileExt))
    /\ pc' = "display"
    /\ UNCHANGED <<currentContent, lines, suggestions, result, fileExt, options,
                   hasConfig, fs, shouldApply, confirmCalls, sessionSaved>>
    /\ UNCHANGED applyOnly
    /\ UNCHANGED analyzeOnly
    /\ UNCHANGED <<contextFiles, pending, git>>

\* Mutant of EditDisplay: an empty list of suggestions does not end the command.
EditDisplayWithoutEarlyReturn ==
    /\ pc = "display"
    /\ IF DisplayThrows(analysis) THEN
           pc' = "threw" /\ UNCHANGED shouldApply
       ELSE IF options.dryRun THEN
           pc' = "done" /\ UNCHANGED shouldApply
       ELSE IF options.autoApply THEN
           pc' = "apply" /\ shouldApply' = TRUE
       ELSE
           pc' = "confirm" /\ shouldApply' = FALSE
    /\ UNCHANGED <<currentContent, lines, suggestions, result, fileExt, options,
                   hasConfig, fs, response, analysis, confirmCalls, sessionSaved>>
    /\ UNCHANGED applyOnly
    /\ UNCHANGED analyzeOnly
    /\ UNCHANGED requestOnly
    /\ UNCHANGED git

\* Lines 63-111: return when nothing is suggested, display the analysis, return
\* in dry-run mode, take autoApply as the decision.
EditDisplay ==
    /\ pc = "display"
    /\ IF Len(analysis.suggestions.list) = 0 THEN
           pc' = "done" /\ UNCHANGED shouldApply
       ELSE IF DisplayThrows(analysis) THEN
           pc' = "threw" /\ UNCHANGED shouldApply
       ELSE IF options.dryRun THEN
           pc' = "done" /\ UNCHANGED shouldApply
       ELSE IF options.autoApply THEN
           pc' = "apply" /\ shouldApply' = TRUE
       ELSE
           pc' = "confirm" /\ shouldApply' = FALSE
    /\ UNCHANGED <<currentContent, lines, suggestions, result, fileExt, options,
                   hasConfig, fs, response, analysis, confirmCalls, sessionSaved>>
    /\ UNCHANGED applyOnly
    /\ UNCHANGED analyzeOnly
    /\ UNCHANGED requestOnly
    /\ UNCHANGED git

\* Lines 113-117: ask the human-in-the-loop gate.
EditConfirm ==
    /\ pc = "confirm"
    /\ \E answer \in BOOLEAN : shouldApply' = answer
    /\ confirmCalls' = confirmCalls + 1
    /\ pc' = "apply"
    /\ UNCHANGED <<currentContent, lines, suggestions, result, fileExt, options,
                   hasConfig, fs, response, analysis, sessionSaved>>
    /\ UNCHANGED applyOnly
    /\ UNCHANGED analyzeOnly
    /\ UNCHANGED requestOnly
    /\ UNCHANGED git

\* Mutant of EditApply: the file is written whatever the decision is.
EditApplyUndecided ==
    /\ pc = "apply"
    /\ suggestions' = analysis.suggestions.list
    /\ result' = ApplyEdits(lines, analysis.suggestions.list)
    /\ fs' = [fs EXCEPT !.target = ApplyEdits(lines, analysis.suggestions.list),
                        !.writes = @ + 1]
    /\ pc' = "session"
    /\ UNCHANGED <<currentContent, lines, fileExt, options, hasConfig, response,
                   analysis, shouldApply, confirmCalls, sessionSaved>>
    /\ UNCHANGED applyOnly
    /\ UNCHANGED analyzeOnly
    /\ UNCHANGED requestOnly
    /\ UNCHANGED git

\* Lines 119-121: applyEdits on the lines read and the suggestions of the
\* analysis, then the target file is overwritten.
EditApply ==
    /\ pc = "apply"
    /\ shouldApply
    /\ suggestions' = analysis.suggestions.list
    /\ result' = ApplyEdits(lines, analysis.suggestions.list)
    /\ fs' = [fs EXCEPT !.target = ApplyEdits(lines, analysis.suggestions.list),
                        !.writes = @ + 1]
    /\ pc' = "session"
    /\ UNCHANGED <<currentContent, lines, fileExt, options, hasConfig, response,
                   analysis, shouldApply, confirmCalls, sessionSaved>>
    /\ UNCHANGED applyOnly
    /\ UNCHANGED analyzeOnly
    /\ UNCHANGED requestOnly
    /\ UNCHANGED git

\* Lines 128-130: the user declined.
EditCancel ==
    /\ pc = "apply"
    /\ ~shouldApply
    /\ pc' = "done"
    /\ UNCHANGED <<currentContent, lines, suggestions, result, fileExt, options,
                   hasConfig, fs, response, analysis, shouldApply, confirmCalls,
                   sessionSaved>>
    /\ UNCHANGED applyOnly
    /\ UNCHANGED analyzeOnly
    /\ UNCHANGED requestOnly
    /\ UNCHANGED git

\* Line 127: saveSession.
EditSaveSession ==
    /\ pc = "session"
    /\ sessionSaved' = TRUE
    /\ pc' = "done"
    /\ UNCHANGED <<currentContent, lines, suggestions, result, fileExt, options,
                   hasConfig, fs, response, analysis, shouldApply, confirmCalls>>
    /\ UNCHANGED applyOnly
    /\ UNCHANGED analyzeOnly
    /\ UNCHANGED requestOnly
    /\ UNCHANGED git

Next ==
    \/ EditAccess
    \/ EditRead
    \/ EditBackup
    \/ EditAnalyzeNoConfig
    \/ EditAnalyze
    \/ EditDisplay
    \/ EditConfirm
    \/ EditApply
    \/ EditCancel
    \/ EditSaveSession

Spec == Init /\ [][Next]_vars

\* ------------------------------------------------------ handleEditWithGit
GitOptions == [createBranch : BOOLEAN, commitMessage : BOOLEAN, pushRemote : BOOLEAN]

\* handleEditWithGit calls handleEditCommand with {backup: true} (line 338).
InitGit ==
    /\ pc = "handleEditWithGit"
    /\ \E o \in GitOptions : git = [active |-> TRUE, opts |-> o, log |-> <<>>]
    /\ fileExt \in FileExts
    /\ options = [dryRun |-> FALSE, backup |-> "true", autoApply |-> FALSE]
    /\ hasConfig \in BOOLEAN
    /\ \E exists \in BOOLEAN, c \in EditContents :
           fs = [exists |-> exists, target |-> IF exists THEN c ELSE <<>>,
                 backups |-> <<>>, writes |-> 0]
    /\ currentContent = <<>>
    /\ lines = <<>>
    /\ suggestions = <<>>
    /\ sortedSuggestions = <<>>
    /\ modifiedLines = <<>>
    /\ k = 0
    /\ result = <<>>
    /\ response = NoResponse
    /\ analysis = EmptyObject
    /\ shouldApply = FALSE
    /\ confirmCalls = 0
    /\ sessionSaved = FALSE
    /\ target = "none"
    /\ tree = {}
    /\ aopts = [watch |-> FALSE, fix |-> FALSE]
    /\ files = <<>>
    /\ outcomes = <<>>
    /\ results = <<>>
    /\ summary = NoSummary
    /\ autoFixed = <<>>
    /\ contextFiles = <<>>
    /\ contextIndex = 0
    /\ contextContent = <<>>
    /\ promptLanguage = ""
    /\ calls = <<>>
    /\ pending = {}

gitFrame == <<currentContent, lines, suggestions, result, fileExt, options, hasConfig,
              fs, response, analysis, shouldApply, confirmCalls, sessionSaved>>

\* Mutant of GitBranch: a failed git checkout does not end the function.
GitBranchFailureIgnored ==
    /\ pc = "handleEditWithGit"
    /\ IF git.opts.createBranch
       THEN \E created \in BOOLEAN :
                git' = [git EXCEPT !.log =
                           Append(@, IF created THEN "checkout" ELSE "checkoutFailed")]
       ELSE UNCHANGED git
    /\ pc' = "start"
    /\ UNCHANGED gitFrame
    /\ UNCHANGED applyOnly
    /\ UNCHANGED analyzeOnly
    /\ UNCHANGED requestOnly

\* Lines 324-335: git checkout -b when a branch is asked for; its failure
\* is reported and the function returns.
GitBranch ==
    /\ pc = "handleEditWithGit"
    /\ IF git.opts.createBranch
       THEN \E created \in BOOLEAN :
                /\ git' = [git EXCEPT !.log =
                              Append(@, IF created THEN "checkout" ELSE "checkoutFailed")]
                /\ pc' = IF created THEN "start" ELSE "gitReturned"
       ELSE pc' = "start" /\ UNCHANGED git
    /\ UNCHANGED gitFrame
    /\ UNCHANGED applyOnly
    /\ UNCHANGED analyzeOnly
    /\ UNCHANGED requestOnly

\* The commands the try block of lines 341-353 runs, with the one that threw.
CommitRuns(pushRemote) ==
    {<<"addFailed">>, <<"add", "commitFailed">>}
    \cup (IF pushRemote
          THEN {<<"add", "commit", "push">>, <<"add", "commit", "pushFailed">>}
          ELSE {<<"add", "commit">>})

\* Lines 340-353: handleEditCommand has returned; with a commit message git
\* add, git commit and, when asked for, git push are run, the first failure
\* ending the block.
GitCommit ==
    /\ pc = "done"
    /\ git.active
    /\ IF git.opts.commitMessage
       THEN \E run \in CommitRuns(git.opts.pushRemote) :
                git' = [git EXCEPT !.log = @ \o run]
       ELSE UNCHANGED git
    /\ pc' = "gitReturned"
    /\ UNCHANGED gitFrame
    /\ UNCHANGED applyOnly
    /\ UNCHANGED analyzeOnly
    /\ UNCHANGED requestOnly

NextGit ==
    \/ GitBranch
    \/ Next
    \/ GitCommit

SpecGit == InitGit /\ [][NextGit]_vars

\* ------------------------------------ analyzeAndGenerateEdits, step by step
notRequest == <<currentContent, lines, suggestions, result, options, fs, shouldApply,
                confirmCalls, sessionSaved>>

InitRequest ==
    /\ pc = "analyzeAndGenerateEdits"
    /\ fileExt \in FileExts
    /\ hasConfig \in BOOLEAN
    /\ contextFiles \in ContextFileLists
    /\ contextIndex = 0
    /\ contextContent = <<>>
    /\ promptLanguage = ""
    /\ calls = <<>>
    /\ pending = {}
    /\ git = NoGit
    /\ currentContent = Join(FileLines(3))
    /\ lines = Split(currentContent)
    /\ suggestions = <<>>
    /\ sortedSuggestions = <<>>
    /\ modifiedLines = <<>>
    /\ k = 0
    /\ result = <<>>
    /\ options = [dryRun |-> FALSE, backup |-> "undefined", autoApply |-> FALSE]
    /\ fs = [exists |-> TRUE, target |-> currentContent, backups |-> <<>>, writes |-> 0]
    /\ response = NoResponse
    /\ analysis = EmptyObject
    /\ shouldApply = FALSE
    /\ confirmCalls = 0
    /\ sessionSaved = FALSE
    /\ target = "none"
    /\ tree = {}
    /\ aopts = [watch |-> FALSE, fix |-> FALSE]
    /\ files = <<>>
    /\ outcomes = <<>>
    /\ results = <<>>
    /\ summary = NoSummary
    /\ autoFixed = <<>>

\* Lines 139-155: the configuration of the content generator (its absence
\* throws, before the try block), then the language of the file.
RequestConfig ==
    /\ pc = "analyzeAndGenerateEdits"
    /\ IF hasConfig
       THEN pc' = "contextLoop" /\ promptLanguage' = GetLanguageFromExtension(fileExt)
       ELSE pc' = "threw" /\ UNCHANGED promptLanguage
    /\ UNCHANGED <<fileExt, hasConfig, response, analysis, contextFiles, contextIndex,
                   contextContent, calls, pending, git>>
    /\ UNCHANGED notRequest
    /\ UNCHANGED applyOnly
    /\ UNCHANGED analyzeOnly

\* Lines 160-163: one iteration of the loop, on a context file that is read.
ContextRead ==
    /\ pc = "contextLoop"
    /\ contextIndex < Len(contextFiles)
    /\ contextFiles[contextIndex + 1].readable
    /\ contextContent' = contextContent \o ContextSegment(contextFiles[contextIndex + 1])
    /\ contextIndex' = contextIndex + 1
    /\ UNCHANGED <<pc, fileExt, hasConfig, response, analysis, contextFiles,
                   promptLanguage, calls, pending, git>>
    /\ UNCHANGED notRequest
    /\ UNCHANGED applyOnly
    /\ UNCHANGED analyzeOnly

\* Mutant of ContextSkip: the rejection of readFile is not caught.
ContextSkipUncaught ==
    /\ pc = "contextLoop"
    /\ contextIndex < Len(contextFiles)
    /\ ~contextFiles[contextIndex + 1].readable
    /\ pc' = "threw"
    /\ UNCHANGED <<fileExt, hasConfig, response, analysis, contextFiles, contextIndex,
                   contextContent, promptLanguage, calls, pending, git>>
    /\ UNCHANGED notRequest
    /\ UNCHANGED applyOnly
    /\ UNCHANGED analyzeOnly

\* Lines 160-166: one iteration on a context file whose readFile rejects: the
\* catch block warns, and the loop goes on.
ContextSkip ==
    /\ pc = "contextLoop"
    /\ contextIndex < Len(contextFiles)
    /\ ~contextFiles[contextIndex + 1].readable
    /\ contextIndex' = contextIndex + 1
    /\ UNCHANGED <<pc, fileExt, hasConfig, response, analysis, contextFiles,
                   contextContent, promptLanguage, calls, pending, git>>
    /\ UNCHANGED notRequest
    /\ UNCHANGED applyOnly
    /\ UNCHANGED analyzeOnly

\* Lines 170-223: the prompt is built and client.generateContent is called.
RequestSend ==
    /\ pc = "contextLoop"
    /\ contextIndex = Len(contextFiles)
    /\ calls' = Append(calls, 1)
    /\ pending' = pending \cup {1}
    /\ pc' = "generateContent"
    /\ UNCHANGED <<fileExt, hasConfig, response, analysis, contextFiles, contextIndex,
                   contextContent, promptLanguage, git>>
    /\ UNCHANGED notRequest
    /\ UNCHANGED applyOnly
    /\ UNCHANGED analyzeOnly

\* Lines 223-254: the call settles; the analysis is parsed and filtered, or
\* the fallback is returned.
RequestSettle ==
    /\ pc = "generateContent"
    /\ \E r \in OracleResponses :
           /\ response' = r
           /\ analysis' = ParseEditResponse(r, promptLanguage)
    /\ pending' = pending \ {1}
    /\ pc' = "returned"
    /\ UNCHANGED <<fileExt, hasConfig, contextFiles, contextIndex, contextContent,
                   promptLanguage, calls, git>>
    /\ UNCHANGED notRequest
    /\ UNCHANGED applyOnly
    /\ UNCHANGED analyzeOnly

NextRequest ==
    \/ RequestConfig
    \/ ContextRead
    \/ ContextSkip
    \/ RequestSend
    \/ RequestSettle

SpecRequest == InitRequest /\ [][NextRequest]_vars

\* ------------------------------------------------------------ getCodeFiles
\* Entry names, as sequences of characters.
NameATs == <<"a", ".", "t", "s">>
NameHiddenTs == <<".", "h", ".", "t", "s">>
NameBTxt == <<"b", ".", "t", "x", "t">>
NameCJs == <<"c", ".", "j", "s">>
NameEPy == <<"e", ".", "p", "y">>
NameLinkTs == <<"l", ".", "t", "s">>
NameGit == <<".", "g", "i", "t">>
NameCfg == <<".", "c", "f", "g">>
NameSrc == <<"s", "r", "c">>
NameNodeModules == <<"n", "o", "d", "e", "_", "m", "o", "d", "u", "l", "e", "s">>

\* The entries a directory tree may hold: the path below the root (joined names)
\* and what Dirent.isFile / Dirent.isDirectory say (other: neither, a link).
Universe ==
    << [path |-> <<NameATs>>, kind |-> "file"],
       [path |-> <<NameHiddenTs>>, kind |-> "file"],
       [path |-> <<NameBTxt>>, kind |-> "file"],
       [path |-> <<NameSrc>>, kind |-> "dir"],
       [path |-> <<NameSrc, NameEPy>>, kind |-> "file"],
       [path |-> <<NameSrc, NameCJs>>, kind |-> "file"],
       [path |-> <<NameGit>>, kind |-> "dir"],
       [path |-> <<NameGit, NameCJs>>, kind |-> "file"],
       [path |-> <<NameNodeModules>>, kind |-> "dir"],
       [path |-> <<NameNodeModules, NameCJs>>, kind |-> "file"],
       [path |-> <<NameSrc, NameCfg>>, kind |-> "dir"],
       [path |-> <<NameSrc, NameCfg, NameATs>>, kind |-> "file"],
       [path |-> <<NameLinkTs>>, kind |-> "other"] >>

ParentPath(path) == SubSeq(path, 1, Len(path) - 1)
BaseName(path) == path[Len(path)]

\* A tree: a set of entries in which every entry lies in a directory of the set.
IsTree(T) ==
    \A i \in T :
        Len(Universe[i].path) > 1 =>
            \E j \in T : /\ Universe[j].kind = "dir"
                         /\ Universe[j].path = ParentPath(Universe[i].path)

AllTrees == {T \in SUBSET (1..Len(Universe)) : IsTree(T)}

\* The members of a set of numbers in ascending order.
RECURSIVE Ascending(_)
Ascending(S) ==
    IF S = {} THEN <<>>
    ELSE LET m == CHOOSE x \in S : \A y \in S : x <= y
         IN <<m>> \o Ascending(S \ {m})

\* fs.readdir(currentDir, {withFileTypes: true}): the entries of one directory,
\* in a fixed order.
ReadDir(dir, T) ==
    Ascending({i \in T : ParentPath(Universe[i].path) = dir})

\* path.extname: from the last dot of the name on; nothing when the name has no
\* dot or only a leading one.
ExtName(name) ==
    LET dots == {i \in 1..Len(name) : name[i] = "."}
    IN IF dots = {} THEN <<>>
       ELSE LET last == CHOOSE i \in dots : \A j \in dots : j <= i
            IN IF last = 1 THEN <<>> ELSE SubSeq(name, last, Len(name))

\* codeExtensions (line 334).
CodeExtensions ==
    { <<".", "t", "s">>, <<".", "j", "s">>, <<".", "t", "s", "x">>,
      <<".", "j", "s", "x">>, <<".", "p", "y">>, <<".", "j", "a", "v", "a">>,
      <<".", "c", "p", "p">>, <<".", "c">>, <<".", "c", "s">>, <<".", "g", "o">>,
      <<".", "r", "s">>, <<".", "p", "h", "p">>, <<".", "r", "b">> }

\* Mutant of IsWalkedName: hidden directories are walked.
IsWalkedNameHiddenToo(name) == name # NameNodeModules

\* Line 342: the name of a directory that is walked.
IsWalkedName(name) == name[1] # "." /\ name # NameNodeModules

\* walkDir (lines 336-348): the files collected below dir, in the order of the
\* pushes.
RECURSIVE WalkDir(_, _)
RECURSIVE WalkEntries(_, _)
WalkEntries(es, T) ==
    IF Len(es) = 0 THEN <<>>
    ELSE LET entry == Universe[Head(es)]
             name == BaseName(entry.path)
             found == IF entry.kind = "dir" /\ IsWalkedName(name)
                      THEN WalkDir(entry.path, T)
                      ELSE IF entry.kind = "file" /\ ExtName(name) \in CodeExtensions
                      THEN <<entry.path>>
                      ELSE <<>>
         IN found \o WalkEntries(Tail(es), T)

WalkDir(dir, T) == WalkEntries(ReadDir(dir, T), T)

\* getCodeFiles(dir) for the root of the tree.
GetCodeFiles(T) == WalkDir(<<>>, T)

\* --------------------------------- getLanguageFromExtension of the analysis
\* languageMap of the analyze command (lines 355-369).
AnalyzeLanguageMap ==
    (<<".", "t", "s">> :> "typescript") @@ (<<".", "t", "s", "x">> :> "typescript")
    @@ (<<".", "j", "s">> :> "javascript") @@ (<<".", "j", "s", "x">> :> "javascript")
    @@ (<<".", "p", "y">> :> "python") @@ (<<".", "j", "a", "v", "a">> :> "java")
    @@ (<<".", "c", "p", "p">> :> "cpp") @@ (<<".", "c">> :> "c")
    @@ (<<".", "c", "s">> :> "csharp") @@ (<<".", "g", "o">> :> "go")
    @@ (<<".", "r", "s">> :> "rust") @@ (<<".", "p", "h", "p">> :> "php")
    @@ (<<".", "r", "b">> :> "ruby")

\* Line 371: languageMap[ext] || 'text', the extension taken as it is.
AnalyzeGetLanguageFromExtension(ext) ==
    IF ext \in DOMAIN AnalyzeLanguageMap THEN AnalyzeLanguageMap[ext] ELSE "text"

\* The extensions classified: every key of the larger map, the same in upper
\* case, and some that are in no map.
ToUpperCase(ext) ==
    [i \in 1..Len(ext) |->
        IF \E j \in 1..Len(LowerCase) : LowerCase[j] = ext[i]
        THEN UpperCase[CHOOSE j \in 1..Len(LowerCase) : LowerCase[j] = ext[i]]
        ELSE ext[i]]

Extensions ==
    DOMAIN LanguageMap
    \cup {ToUpperCase(e) : e \in DOMAIN LanguageMap}
    \cup {<<>>, <<".">>, <<".", "z", "z", "z">>, <<".", "T", "s">>, <<".", "t", "s", "s">>}

InitClassify ==
    /\ pc = "getLanguageFromExtension"
    /\ fileExt \in Extensions
    /\ promptLanguage = ""
    /\ hasConfig = TRUE
    /\ contextFiles = <<>>
    /\ contextIndex = 0
    /\ contextContent = <<>>
    /\ calls = <<>>
    /\ pending = {}
    /\ git = NoGit
    /\ currentContent = <<>>
    /\ lines = <<>>
    /\ suggestions = <<>>
    /\ sortedSuggestions = <<>>
    /\ modifiedLines = <<>>
    /\ k = 0
    /\ result = <<>>
    /\ options = [dryRun |-> FALSE, backup |-> "undefined", autoApply |-> FALSE]
    /\ fs = [exists |-> FALSE, target |-> <<>>, backups |-> <<>>, writes |-> 0]
    /\ response = NoResponse
    /\ analysis = EmptyObject
    /\ shouldApply = FALSE
    /\ confirmCalls = 0
    /\ sessionSaved = FALSE
    /\ target = "none"
    /\ tree = {}
    /\ aopts = [watch |-> FALSE, fix |-> FALSE]
    /\ files = <<>>
    /\ outcomes = <<>>
    /\ results = <<>>
    /\ summary = NoSummary
    /\ autoFixed = <<>>

classifyFrame == <<currentContent, lines, suggestions, sortedSuggestions, modifiedLines,
                   k, result, fileExt, options, hasConfig, fs, response, analysis,
                   shouldApply, confirmCalls, sessionSaved, contextFiles, contextIndex,
                   contextContent, calls, pending, git>>

\* The classifier of the edit command is applied (part_002 line 155).
ClassifyForEdit ==
    /\ pc = "getLanguageFromExtension"
    /\ promptLanguage' = GetLanguageFromExtension(fileExt)
    /\ pc' = "classifiedForEdit"
    /\ UNCHANGED classifyFrame
    /\ UNCHANGED analyzeOnly

\* The classifier of the analyze command is applied (line 170).
ClassifyForAnalysis ==
    /\ pc = "getLanguageFromExtension"
    /\ promptLanguage' = AnalyzeGetLanguageFromExtension(fileExt)
    /\ pc' = "classifiedForAnalysis"
    /\ UNCHANGED classifyFrame
    /\ UNCHANGED analyzeOnly

NextClassify == ClassifyForEdit \/ ClassifyForAnalysis

SpecClassify == InitClassify /\ [][NextClassify]_vars

\* ------------------------------------------------- quality analysis values
Issue(type, severity) ==
    [line |-> 1, column |-> 1, severity |-> severity, message |-> "m", type |-> type]

CodeSuggestion(type) == [line |-> 1, type |-> type, description |-> "d"]

Metrics(c, m, perf, sec) ==
    [complexity |-> c, maintainabilityIndex |-> m, performance |-> perf, security |-> sec]

\* A member of the parsed object: present with a value, or undefined.
Present(v) == [defined |-> TRUE, value |-> v]
AbsentList == [defined |-> FALSE, value |-> <<>>]
AbsentMetrics == [defined |-> FALSE, value |-> Metrics(0, 0, "", "")]

\* The object {} of the quality analysis.
EmptyQObject == [issues |-> AbsentList, suggestions |-> AbsentList, metrics |-> AbsentMetrics]

\* The tokens of an oracle text of the quality analysis.
QTok(t) == [t |-> t, body |-> EmptyQObject]
QBodyTok(o) == [t |-> "body", body |-> o]
QPROSE == QTok("prose")
QFENCE == QTok("fence")
QLBRACE == QTok("{")
QRBRACE == QTok("}")
QNULL == QTok("null")

\* JSON.parse (line 220).
QJSONParse(text) ==
    IF Len(text) = 3 /\ text[1] = QLBRACE /\ text[2].t = "body" /\ text[3] = QRBRACE
    THEN [ok |-> TRUE, null |-> FALSE, obj |-> text[2].body]
    ELSE IF text = <<QLBRACE, QRBRACE>>
    THEN [ok |-> TRUE, null |-> FALSE, obj |-> EmptyQObject]
    ELSE IF text = <<QNULL>>
    THEN [ok |-> TRUE, null |-> TRUE, obj |-> EmptyQObject]
    ELSE [ok |-> FALSE, null |-> FALSE, obj |-> EmptyQObject]

\* response.match of the pattern "{", anything, "}" (line 218): the greedy match
\* runs from the first opening brace to the last closing brace after it; without
\* a match the whole response is taken (line 219).
JsonMatch(text) ==
    LET opens == {i \in 1..Len(text) : text[i] = QLBRACE}
    IN IF opens = {} THEN text
       ELSE LET first == CHOOSE i \in opens : \A j \in opens : i <= j
                closes == {i \in 1..Len(text) : text[i] = QRBRACE /\ i > first}
            IN IF closes = {} THEN text
               ELSE LET last == CHOOSE i \in closes : \A j \in closes : j <= i
                    IN SubSeq(text, first, last)

\* The metrics parseAnalysisResponse falls back to (lines 226-231 and 243-248).
DefaultMetrics == Metrics(5, 70, "good", "moderate")

\* The result of the catch block of parseAnalysisResponse (lines 233-250).
ParseFallbackResult(path) ==
    [file |-> path, issues |-> <<>>,
     suggestions |->
         <<[line |-> 1, type |-> "documentation",
            description |-> "Consider adding comprehensive documentation for this code"]>>,
     metrics |-> DefaultMetrics]

\* parseAnalysisResponse (lines 215-251).  A SyntaxError of JSON.parse and the
\* TypeError of reading a member of null end in the catch block.
ParseAnalysisResponse(text, path) ==
    LET parsed == QJSONParse(JsonMatch(text))
    IN IF ~parsed.ok \/ parsed.null
       THEN ParseFallbackResult(path)
       ELSE [file |-> path,
             issues |-> IF parsed.obj.issues.defined
                        THEN parsed.obj.issues.value ELSE <<>>,
             suggestions |-> IF parsed.obj.suggestions.defined
                             THEN parsed.obj.suggestions.value ELSE <<>>,
             metrics |-> IF parsed.obj.metrics.defined
                         THEN parsed.obj.metrics.value ELSE DefaultMetrics]

\* The result of the catch block of analyzeFile (lines 151-166).
CatchResult(path) ==
    [file |-> path, issues |-> <<>>, suggestions |-> <<>>,
     metrics |-> Metrics(0, 50, "fair", "moderate")]

\* analyzeFile after the file has been read (lines 112-167).
AnalyzeFile(path, o) ==
    IF o.kind # "text" \/ o.text = <<>>
    THEN CatchResult(path)
    ELSE ParseAnalysisResponse(o.text, path)

\* ------------------------------------------------ inputs of analyzeCommand
GoodMetrics == Metrics(3, 80, "excellent", "secure")
WildMetrics == Metrics(11, 120, "unknown", "unknown")

QObjects ==
    [issues : {AbsentList, Present(<<Issue("security", "error")>>),
               Present(<<Issue("style", "info"), Issue("security", "error")>>)},
     suggestions : {AbsentList, Present(<<CodeSuggestion("refactor")>>)},
     metrics : {AbsentMetrics, Present(GoodMetrics), Present(WildMetrics)}]

QObjectText(o) == <<QLBRACE, QBodyTok(o), QRBRACE>>

GoodQObject ==
    [issues |-> Present(<<Issue("style", "info"), Issue("security", "error")>>),
     suggestions |-> Present(<<CodeSuggestion("refactor")>>),
     metrics |-> Present(GoodMetrics)]

QTexts ==
    {<<>>, <<QPROSE>>, <<QNULL>>, <<QLBRACE, QRBRACE>>}
    \cup {QObjectText(o) : o \in QObjects}
    \cup {<<QPROSE>> \o QObjectText(GoodQObject) \o <<QPROSE>>,
          <<QFENCE>> \o QObjectText(GoodQObject) \o <<QFENCE>>,
          <<QPROSE>> \o QObjectText(GoodQObject) \o <<QPROSE, QRBRACE>>}

\* Reading the file fails, or the oracle rejects, resolves without text, or
\* resolves with a text.
FileOutcomes ==
    {[kind |-> kd, text |-> <<>>] : kd \in {"readError", "rejected", "noText"}}
    \cup {[kind |-> "text", text |-> t] : t \in QTexts}

\* The trees analysed file by file: the entries a.ts, .h.ts, b.txt, src, src/e.py.
AnalyzeTrees == {T \in AllTrees : T \subseteq {1, 2, 3, 4, 5}}

\* ---------------------------------------------------------- analyzeCommand
notAnalyze == <<currentContent, lines, suggestions, sortedSuggestions,
                modifiedLines, k, result, fileExt, options, fs, response,
                analysis, shouldApply, sessionSaved>>

InitAnalyze ==
    /\ pc = "analyzeCommand"
    /\ hasConfig \in BOOLEAN
    /\ aopts \in [watch : BOOLEAN, fix : BOOLEAN]
    /\ \/ target \in {"missing", "file"} /\ tree = {}
       \/ target = "dir" /\ tree \in AnalyzeTrees
    /\ files = <<>>
    /\ outcomes = <<>>
    /\ results = <<>>
    /\ summary = NoSummary
    /\ autoFixed = <<>>
    /\ contextFiles = <<>>
    /\ contextIndex = 0
    /\ contextContent = <<>>
    /\ promptLanguage = ""
    /\ calls = <<>>
    /\ pending = {}
    /\ git = NoGit
    /\ confirmCalls = 0
    /\ currentContent = <<>>
    /\ lines = <<>>
    /\ suggestions = <<>>
    /\ sortedSuggestions = <<>>
    /\ modifiedLines = <<>>
    /\ k = 0
    /\ result = <<>>
    /\ fileExt = <<>>
    /\ options = [dryRun |-> FALSE, backup |-> "undefined", autoApply |-> FALSE]
    /\ fs = [exists |-> FALSE, target |-> <<>>, backups |-> <<>>, writes |-> 0]
    /\ response = NoResponse
    /\ analysis = EmptyObject
    /\ shouldApply = FALSE
    /\ sessionSaved = FALSE

\* Lines 46-72: without a content generator configuration the process exits
\* with code 1; otherwise watch mode or the analysis is entered.
AnalyzeStart ==
    /\ pc = "analyzeCommand"
    /\ pc' = IF ~hasConfig THEN "exit1"
             ELSE IF aopts.watch THEN "watch"
             ELSE "analyzeCodebase"
    /\ UNCHANGED <<hasConfig, confirmCalls>>
    /\ UNCHANGED analyzeOnly
    /\ UNCHANGED notAnalyze
    /\ UNCHANGED requestOnly
    /\ UNCHANGED git

\* Lines 71 and 374-382: startWatchMode prints and returns; the target is not
\* looked at.
AnalyzeWatch ==
    /\ pc = "watch"
    /\ pc' = "done"
    /\ UNCHANGED <<hasConfig, confirmCalls>>
    /\ UNCHANGED analyzeOnly
    /\ UNCHANGED notAnalyze
    /\ UNCHANGED requestOnly
    /\ UNCHANGED git

\* Lines 84-97: fs.stat of the target (a missing target throws, and the catch
\* block of analyzeCommand exits with code 1), then the list of files.
AnalyzeStat ==
    /\ pc = "analyzeCodebase"
    /\ IF target = "missing" THEN
           pc' = "exit1" /\ UNCHANGED files
       ELSE
           /\ pc' = "analyzeLoop"
           /\ files' = IF target = "file" THEN << <<NameBTxt>> >> ELSE GetCodeFiles(tree)
    /\ UNCHANGED <<hasConfig, confirmCalls, target, tree, aopts, outcomes, results,
                   summary, autoFixed>>
    /\ UNCHANGED notAnalyze
    /\ UNCHANGED requestOnly
    /\ UNCHANGED git

\* The outcomes of an oracle call.
OracleOutcomes == {o \in FileOutcomes : o.kind # "readError"}

\* Mutant of AnalyzeFileCall: the next file is started without awaiting the
\* result of the file before.
AnalyzeFileCallUnawaited ==
    /\ pc \in {"analyzeLoop", "analyzeFile"}
    /\ Len(calls) < Len(files)
    /\ promptLanguage' =
           AnalyzeGetLanguageFromExtension(ExtName(BaseName(files[Len(calls) + 1])))
    /\ calls' = Append(calls, Len(calls) + 1)
    /\ pending' = pending \cup {Len(calls) + 1}
    /\ pc' = "analyzeFile"
    /\ UNCHANGED <<hasConfig, confirmCalls, target, tree, aopts, files, outcomes,
                   results, summary, autoFixed>>
    /\ UNCHANGED notAnalyze
    /\ UNCHANGED <<contextFiles, contextIndex, contextContent, git>>

\* Lines 101-103 and 110-140: the loop takes the next file; analyzeFile reads
\* it, builds the prompt and calls client.generateContent.  A failing readFile
\* (line 111) is outside the try block of analyzeFile: it leaves
\* analyzeCodebase and ends in the catch block of analyzeCommand.
AnalyzeFileCall ==
    /\ pc = "analyzeLoop"
    /\ Len(results) < Len(files)
    /\ \E readable \in BOOLEAN :
           IF ~readable THEN
               /\ outcomes' = Append(outcomes, [kind |-> "readError", text |-> <<>>])
               /\ pc' = "exit1"
               /\ UNCHANGED <<promptLanguage, calls, pending>>
           ELSE
               /\ promptLanguage' =
                      AnalyzeGetLanguageFromExtension(
                          ExtName(BaseName(files[Len(results) + 1])))
               /\ calls' = Append(calls, Len(results) + 1)
               /\ pending' = pending \cup {Len(results) + 1}
               /\ pc' = "analyzeFile"
               /\ UNCHANGED outcomes
    /\ UNCHANGED <<hasConfig, confirmCalls, target, tree, aopts, files, results,
                   summary, autoFixed>>
    /\ UNCHANGED notAnalyze
    /\ UNCHANGED <<contextFiles, contextIndex, contextContent, git>>

\* Lines 140-166 and 104: the call settles, analyzeFile returns the parsed
\* result or the result of its catch block, and the loop records it.
AnalyzeFileSettle ==
    /\ pc = "analyzeFile"
    /\ \E o \in OracleOutcomes :
           /\ outcomes' = Append(outcomes, o)
           /\ results' = Append(results, AnalyzeFile(files[Len(results) + 1], o))
    /\ pending' = pending \ {Len(results) + 1}
    /\ pc' = "analyzeLoop"
    /\ UNCHANGED <<hasConfig, confirmCalls, target, tree, aopts, files, summary,
                   autoFixed>>
    /\ UNCHANGED notAnalyze
    /\ UNCHANGED <<contextFiles, contextIndex, contextContent, promptLanguage, calls,
                   git>>

\* results.reduce((sum, r) => sum + ..., 0) over the numbers of the results.
RECURSIVE Sum(_)
Sum(ns) == IF Len(ns) = 0 THEN 0 ELSE Head(ns) + Sum(Tail(ns))

\* Mutant of Summarize: the averages are taken over the files whose analysis
\* did not end in the catch block of analyzeFile.
SummarizeAnalysed(rs) ==
    LET ok == SelectSeq(rs, LAMBDA r : r.metrics.complexity # 0)
    IN [computed |-> TRUE,
        totalIssues |-> Sum([i \in 1..Len(rs) |-> Len(rs[i].issues)]),
        totalSuggestions |-> Sum([i \in 1..Len(rs) |-> Len(rs[i].suggestions)]),
        sumComplexity |-> Sum([i \in 1..Len(ok) |-> ok[i].metrics.complexity]),
        sumMaintainability |->
            Sum([i \in 1..Len(ok) |-> ok[i].metrics.maintainabilityIndex]),
        count |-> Len(ok)]

\* Lines 256-299: the totals of the loop of lines 259-287, and the two averages
\* of lines 295-296 as the sum and the number of results it is divided by.
Summarize(rs) ==
    [computed |-> TRUE,
     totalIssues |-> Sum([i \in 1..Len(rs) |-> Len(rs[i].issues)]),
     totalSuggestions |-> Sum([i \in 1..Len(rs) |-> Len(rs[i].suggestions)]),
     sumComplexity |-> Sum([i \in 1..Len(rs) |-> rs[i].metrics.complexity]),
     sumMaintainability |->
         Sum([i \in 1..Len(rs) |-> rs[i].metrics.maintainabilityIndex]),
     count |-> Len(rs)]

\* Lines 74 and 253-308: displayResults up to the question of the auto-fix.
AnalyzeDisplay ==
    /\ pc = "analyzeLoop"
    /\ Len(results) = Len(files)
    /\ summary' = Summarize(results)
    /\ pc' = IF aopts.fix /\ Summarize(results).totalIssues > 0
             THEN "confirmFix" ELSE "done"
    /\ UNCHANGED <<hasConfig, confirmCalls, target, tree, aopts, files, outcomes,
                   results, autoFixed>>
    /\ UNCHANGED notAnalyze
    /\ UNCHANGED requestOnly
    /\ UNCHANGED git

\* The issues applyAutoFixes reports as fixed (lines 314-327).
RECURSIVE FixableIssues(_)
FixableIssues(rs) ==
    IF Len(rs) = 0 THEN <<>>
    ELSE SelectSeq(Head(rs).issues,
                   LAMBDA issue : issue.type = "style" \/ issue.type = "maintainability")
             \o FixableIssues(Tail(rs))

\* Lines 302-305 and 311-330: the gate of the auto-fix, and applyAutoFixes when
\* it accepts.
AnalyzeConfirmFix ==
    /\ pc = "confirmFix"
    /\ confirmCalls' = confirmCalls + 1
    /\ \E shouldFix \in BOOLEAN :
           autoFixed' = IF shouldFix THEN FixableIssues(results) ELSE autoFixed
    /\ pc' = "done"
    /\ UNCHANGED <<hasConfig, target, tree, aopts, files, outcomes, results, summary>>
    /\ UNCHANGED notAnalyze
    /\ UNCHANGED requestOnly
    /\ UNCHANGED git

NextAnalyze ==
    \/ AnalyzeStart
    \/ AnalyzeWatch
    \/ AnalyzeStat
    \/ AnalyzeFileCall
    \/ AnalyzeFileSettle
    \/ AnalyzeDisplay
    \/ AnalyzeConfirmFix

SpecAnalyze == InitAnalyze /\ [][NextAnalyze]_vars

\* Discovery alone, over every tree.
InitDiscover ==
    /\ pc = "analyzeCodebase"
    /\ hasConfig = TRUE
    /\ aopts = [watch |-> FALSE, fix |-> FALSE]
    /\ target = "dir"
    /\ tree \in AllTrees
    /\ files = <<>>
    /\ outcomes = <<>>
    /\ results = <<>>
    /\ summary = NoSummary
    /\ autoFixed = <<>>
    /\ contextFiles = <<>>
    /\ contextIndex = 0
    /\ contextContent = <<>>
    /\ promptLanguage = ""
    /\ calls = <<>>
    /\ pending = {}
    /\ git = NoGit
    /\ confirmCalls = 0
    /\ currentContent = <<>>
    /\ lines = <<>>
    /\ suggestions = <<>>
    /\ sortedSuggestions = <<>>
    /\ modifiedLines = <<>>
    /\ k = 0
    /\ result = <<>>
    /\ fileExt = <<>>
    /\ options = [dryRun |-> FALSE, backup |-> "undefined", autoApply |-> FALSE]
    /\ fs = [exists |-> FALSE, target |-> <<>>, backups |-> <<>>, writes |-> 0]
    /\ response = NoResponse
    /\ analysis = EmptyObject
    /\ shouldApply = FALSE
    /\ sessionSaved = FALSE

NextDiscover == AnalyzeStat

SpecDiscover == InitDiscover /\ [][NextDiscover]_vars

\* Both commands: an invocation is one of handleEditCommand or analyzeCommand.
InitCommands == Init \/ InitAnalyze

NextCommands == Next \/ NextAnalyze

SpecCommands == InitCommands /\ [][NextCommands]_vars

\* ======================================================= claims, applyEdits
\* Every range lies inside the file ls.
RangesInBounds(ls, S) ==
    \A i \in 1..Len(S) :
        1 <= S[i].startLine /\ S[i].startLine <= S[i].endLine /\ S[i].endLine <= Len(ls)

\* No two ranges share a line.
RangesDisjoint(S) ==
    \A i, j \in 1..Len(S) :
        i < j => (S[i].endLine < S[j].startLine \/ S[j].endLine < S[i].startLine)

\* The lines of ls from line i on, every range of S read against ls itself:
\* the first line of a range gives the replacement, its other lines give nothing.
RECURSIVE ReplacedFrom(_, _, _)
ReplacedFrom(ls, S, i) ==
    IF i > Len(ls) THEN <<>>
    ELSE LET starting == {j \in 1..Len(S) : S[j].startLine = i}
             covering == {j \in 1..Len(S) : S[j].startLine < i /\ i <= S[j].endLine}
             piece == IF starting # {} THEN S[CHOOSE j \in starting : TRUE].suggestedLines
                      ELSE IF covering # {} THEN <<>>
                      ELSE <<ls[i]>>
         IN piece \o ReplacedFrom(ls, S, i + 1)

\* C1: for in-bounds, pairwise disjoint ranges applyEdits returns the original
\* lines with each range startLine..endLine replaced by its suggestedLines, all
\* line numbers read against the unmodified file; the two scenarios of the
\* specification are instances.
C1_DisjointEditsReplaceOriginalRanges ==
    pc = "applyDone" =>
        /\ (RangesInBounds(lines, suggestions) /\ RangesDisjoint(suggestions))
               => result = Join(ReplacedFrom(lines, suggestions, 1))
        /\ (lines = FileLines(4) /\ Len(suggestions) = 1
                /\ suggestions[1].startLine = 2 /\ suggestions[1].endLine = 3
                /\ suggestions[1].suggestedLines = << <<"X">> >>)
               => result = <<"a", NL, "X", NL, "d">>
        /\ (lines = FileLines(5) /\ Len(suggestions) = 2
                /\ suggestions[1].startLine = 2 /\ suggestions[1].endLine = 2
                /\ suggestions[2].startLine = 4 /\ suggestions[2].endLine = 4
                /\ suggestions[1].suggestedLines = << <<"X">> >>
                /\ suggestions[2].suggestedLines = << <<"X">> >>)
               => result = <<"a", NL, "X", NL, "c", NL, "X", NL, "e">>

\* Witness of C1: two disjoint in-bounds suggestions given in ascending order,
\* the lower one changing the number of lines, have been applied.
C1_Witness ==
    /\ pc = "applyDone"
    /\ Len(suggestions) = 2
    /\ RangesInBounds(lines, suggestions) /\ RangesDisjoint(suggestions)
    /\ suggestions[1].startLine < suggestions[2].startLine
    /\ Len(suggestions[1].suggestedLines) = 3
    /\ suggestions[1].endLine = suggestions[1].startLine
    /\ Len(suggestions[2].suggestedLines) = 1

\* ml contains the lines of piece, contiguous and in order.
ContainsLines(ml, piece) ==
    \E off \in 0..Len(ml) :
        /\ off + Len(piece) <= Len(ml)
        /\ SubSeq(ml, off + 1, off + Len(piece)) = piece

RangesOverlap(a, b) == a.startLine <= b.endLine /\ b.startLine <= a.endLine

\* C2: of two overlapping suggestions the one with the higher startLine wins:
\* after applyEdits its suggestedLines are intact and contiguous in the result.
C2_HigherStartLineWins ==
    (/\ pc = "applyDone"
     /\ Len(suggestions) = 2
     /\ RangesInBounds(lines, suggestions)
     /\ RangesOverlap(suggestions[1], suggestions[2])
     /\ suggestions[1].startLine # suggestions[2].startLine)
        => LET higher == IF suggestions[1].startLine > suggestions[2].startLine
                         THEN suggestions[1] ELSE suggestions[2]
           IN ContainsLines(modifiedLines, higher.suggestedLines)

\* C3: an iteration whose suggestion fails 0 <= startIdx <= endIdx < current
\* length leaves the line sequence unchanged and the loop goes on to the next
\* suggestion; when applyEdits returns every suggestion has been processed.
C3_OutOfRangeSkipped ==
    /\ [][(/\ pc = "applyLoop"
           /\ k < Len(sortedSuggestions)
           /\ ~(/\ 0 <= sortedSuggestions[k + 1].startLine - 1
                /\ sortedSuggestions[k + 1].startLine - 1
                       <= sortedSuggestions[k + 1].endLine - 1
                /\ sortedSuggestions[k + 1].endLine - 1 < Len(modifiedLines)))
              => (modifiedLines' = modifiedLines /\ k' = k + 1 /\ pc' = "applyLoop")]_vars
    /\ [](pc = "applyDone" => k = Len(suggestions))

\* Witness of C3: a batch whose first processed suggestion was out of range and
\* whose second one was applied.
C3_Witness ==
    /\ pc = "applyDone"
    /\ Len(sortedSuggestions) = 2
    /\ sortedSuggestions[1].endLine > Len(lines)
    /\ sortedSuggestions[1].startLine <= sortedSuggestions[1].endLine
    /\ RangesInBounds(lines, <<sortedSuggestions[2]>>)
    /\ modifiedLines # lines
    /\ ContainsLines(modifiedLines, sortedSuggestions[2].suggestedLines)

\* C4: with an empty suggestion list applyEdits returns the content that was
\* split into the lines.
C4_EmptyListIdentity ==
    (pc = "applyDone" /\ suggestions = <<>>) => result = currentContent

\* Witness of C4: an empty list applied to a content that ends with a newline
\* and holds an empty line.
C4_Witness ==
    /\ pc = "applyDone"
    /\ suggestions = <<>>
    /\ Len(currentContent) >= 3
    /\ currentContent[Len(currentContent)] = NL
    /\ \E i \in 1..(Len(lines) - 1) : lines[i] = <<>>

\* The lists that hold the elements of S in another order.
PermutationsOf(S) ==
    {[i \in 1..Len(S) |-> S[f[i]]] :
        f \in {g \in [1..Len(S) -> 1..Len(S)] :
                  \A a, b \in 1..Len(S) : a # b => g[a] # g[b]}}

\* C5: for valid non-overlapping suggestions the content applyEdits returns is
\* the same for every permutation of the input list.
C5_PermutationInvariant ==
    (pc = "applyDone" /\ RangesInBounds(lines, suggestions) /\ RangesDisjoint(suggestions))
        => \A p \in PermutationsOf(suggestions) : ApplyEdits(lines, p) = result

\* Witness of C5: two valid disjoint suggestions supplied in descending order,
\* the lower one changing the number of lines.
C5_Witness ==
    /\ pc = "applyDone"
    /\ Len(suggestions) = 2
    /\ RangesInBounds(lines, suggestions) /\ RangesDisjoint(suggestions)
    /\ suggestions[1].startLine > suggestions[2].startLine
    /\ Len(suggestions[2].suggestedLines)
           # suggestions[2].endLine - suggestions[2].startLine + 1
    /\ result # currentContent

\* ================================================= claims, the edit command
\* The analysis of the oracle response has returned to handleEditCommand.
Analyzed == response # NoResponse

\* The text is exactly one JSON object and that object has a list of suggestions.
IsObjectText(text) ==
    Len(text) = 3 /\ text[1] = LBRACE /\ text[2].t = "body" /\ text[3] = RBRACE

\* The positions of S the filter has to keep.
KeptPositions(S) ==
    {i \in 1..Len(S) :
        S[i].confidence >= 70 /\ S[i].originalLines # <<>> /\ S[i].suggestedLines # <<>>}

\* out holds exactly the elements of S at the kept positions, in their order.
IsKeptSublist(out, S) ==
    /\ Len(out) = Cardinality(KeptPositions(S))
    /\ \E f \in [1..Len(out) -> 1..Len(S)] :
           /\ \A a, b \in 1..Len(out) : a < b => f[a] < f[b]
           /\ \A a \in 1..Len(out) : f[a] \in KeptPositions(S) /\ out[a] = S[f[a]]

\* C6: the filter returns exactly the sublist of the parsed suggestions with
\* confidence >= 70 and both line arrays non-empty, order kept, nothing else
\* changed; confidence 69 is dropped and confidence 70 is kept.
C6_FilterKeepsExactlyAccepted ==
    (/\ Analyzed
     /\ response.kind = "text"
     /\ IsObjectText(response.text)
     /\ response.text[2].body.suggestions.kind = "list")
        => LET parsed == response.text[2].body
           IN /\ analysis.suggestions.kind = "list"
              /\ IsKeptSublist(analysis.suggestions.list, parsed.suggestions.list)
              /\ \A s \in {analysis.suggestions.list[i] :
                              i \in 1..Len(analysis.suggestions.list)} :
                     s.confidence # 69
              /\ \A i \in 1..Len(parsed.suggestions.list) :
                     LET s == parsed.suggestions.list[i]
                     IN (s.confidence = 70 /\ s.originalLines # <<>>
                             /\ s.suggestedLines # <<>>)
                            => \E j \in 1..Len(analysis.suggestions.list) :
                                   analysis.suggestions.list[j] = s
              /\ analysis.language = parsed.language
              /\ analysis.complexity = parsed.complexity
              /\ analysis.risks = parsed.risks
              /\ analysis.dependencies = parsed.dependencies

\* Witness of C6: of two parsed suggestions the first, with confidence 69, was
\* dropped and the second, with confidence 70, was kept.
C6_Witness ==
    /\ Analyzed
    /\ response.kind = "text"
    /\ IsObjectText(response.text)
    /\ response.text[2].body.suggestions.kind = "list"
    /\ Len(response.text[2].body.suggestions.list) = 2
    /\ response.text[2].body.suggestions.list[1].confidence = 69
    /\ response.text[2].body.suggestions.list[1].originalLines # <<>>
    /\ response.text[2].body.suggestions.list[1].suggestedLines # <<>>
    /\ response.text[2].body.suggestions.list[2].confidence = 70
    /\ analysis.suggestions.list = <<response.text[2].body.suggestions.list[2]>>

\* C7: whatever the oracle returns, the suggestions passed to applyEdits, and
\* so the content written to the target file, hold no suggestion with
\* confidence below 70 or with empty originalLines or suggestedLines.
C7_OnlyAcceptedSuggestionsApplied ==
    /\ \A i \in 1..Len(suggestions) :
           /\ suggestions[i].confidence >= 70
           /\ suggestions[i].originalLines # <<>>
           /\ suggestions[i].suggestedLines # <<>>
    /\ fs.writes > 0 =>
           /\ fs.target = ApplyEdits(lines, suggestions)
           /\ response.kind = "text"
           /\ \E i \in 1..Len(response.text) :
                  /\ response.text[i].t = "body"
                  /\ IsKeptSublist(suggestions, response.text[i].body.suggestions.list)

\* Witness of C7: the file was written although the oracle also returned a
\* suggestion with empty suggestedLines, which was not applied.
C7_Witness ==
    /\ fs.writes = 1
    /\ fs.target # currentContent
    /\ Len(suggestions) = 1
    /\ \E i \in 1..Len(response.text) :
           /\ response.text[i].t = "body"
           /\ Len(response.text[i].body.suggestions.list) = 2
           /\ \E j \in 1..2 : response.text[i].body.suggestions.list[j].suggestedLines = <<>>

\* The text, its fences and surrounding white space removed, is a JSON document.
IsJsonText(text) ==
    LET u == SelectSeq(text, LAMBDA tk : tk \notin {FENCE_OPEN, FENCE_CLOSE, BLANK})
    IN \/ u = <<LBRACE, RBRACE>>
       \/ u = <<NULL>>
       \/ IsObjectText(u)

\* C8: when the oracle call fails, returns no text, or returns text that is not
\* JSON (once its code fences are stripped), the analysis does not raise and
\* returns exactly the fallback with the classified language tag.
C8_FallbackOnOracleOrParseFailure ==
    (/\ Analyzed
     /\ \/ response.kind \in {"rejected", "noText"}
        \/ response.kind = "text" /\ ~IsJsonText(response.text))
        => /\ pc # "threw"
           /\ analysis =
                  [language |-> Str(GetLanguageFromExtension(fileExt)),
                   complexity |-> Num(5),
                   suggestions |-> List(<<>>),
                   risks |-> List(<<"Analysis failed - manual review recommended">>),
                   dependencies |-> List(<<>>)]

\* Witness of C8: the oracle returned prose around an opening brace, for a
\* file whose extension is classified after lower-casing, and the command
\* returned normally.
C8_Witness ==
    /\ pc = "done"
    /\ response.kind = "text"
    /\ response.text = <<PROSE, LBRACE>>
    /\ fileExt = <<".", "T", "S">>
    /\ analysis.language = Str("typescript")
    /\ analysis.complexity = Num(5)

\* The object has the shape of a FileAnalysis.
HasRequiredShape(o) ==
    /\ o.language.kind = "string"
    /\ o.complexity.kind = "number"
    /\ o.suggestions.kind = "list"
    /\ o.risks.kind = "list"
    /\ o.dependencies.kind = "list"

\* C9: when the text parses as JSON and the parsed object lacks the required
\* shape, the analysis returns the fallback; every FileAnalysis handed to
\* handleEditCommand has suggestions, risks and dependencies that are lists.
C9_MisshapenObjectGivesFallback ==
    Analyzed =>
        /\ analysis.suggestions.kind = "list"
        /\ analysis.risks.kind = "list"
        /\ analysis.dependencies.kind = "list"
        /\ (/\ response.kind = "text"
            /\ IsObjectText(response.text)
            /\ ~HasRequiredShape(response.text[2].body))
               => analysis = FallbackAnalysis(GetLanguageFromExtension(fileExt))

\* C10: for a text made of prose, one well-formed JSON object of the expected
\* shape and prose, the parser returns the content of that object (its
\* suggestions filtered) and not the fallback.
C10_ProseAroundObjectIsParsed ==
    (/\ Analyzed
     /\ response.kind = "text"
     /\ Len(response.text) = 5
     /\ response.text[1] = PROSE
     /\ response.text[5] = PROSE
     /\ IsObjectText(SubSeq(response.text, 2, 4))
     /\ HasRequiredShape(response.text[3].body))
        => /\ analysis # FallbackAnalysis(GetLanguageFromExtension(fileExt))
           /\ analysis.risks = response.text[3].body.risks
           /\ IsKeptSublist(analysis.suggestions.list,
                            response.text[3].body.suggestions.list)


\* ==================================================== claims, getCodeFiles
\* A name that starts with "." or is node_modules.
SkippedName(name) == name[1] = "." \/ name = NameNodeModules

HasCodeExtension(path) == ExtName(BaseName(path)) \in CodeExtensions

Range(seq) == {seq[i] : i \in 1..Len(seq)}

\* The file entries of the tree with a recognized extension whose directories,
\* from the root down, all have names that are not skipped.
FilesOutsideSkippedDirectories ==
    {Universe[i].path : i \in {j \in tree :
        /\ Universe[j].kind = "file"
        /\ HasCodeExtension(Universe[j].path)
        /\ \A d \in 1..(Len(Universe[j].path) - 1) : ~SkippedName(Universe[j].path[d])}}

\* C18 (as amended): for a directory root, discovery returns exactly the file
\* entries with a recognized code extension that are reached without passing
\* through a directory whose name starts with "." or equals node_modules, each
\* once: every directory with such a name is skipped, so no returned path has
\* a directory component below the root with such a name.
C18_DiscoverySkipsHiddenDirectories ==
    (pc = "analyzeLoop" /\ target = "dir") =>
        /\ Range(files) = FilesOutsideSkippedDirectories
        /\ Len(files) = Cardinality(FilesOutsideSkippedDirectories)
        /\ \A i \in 1..Len(files) :
               \A d \in 1..(Len(files[i]) - 1) : ~SkippedName(files[i][d])

\* C18 (as claimed): every entry, file or directory, with such a name is
\* skipped, so no component of a returned path starts with "." or equals
\* node_modules.
C18_NoSkippedNameInReturnedPath ==
    (pc = "analyzeLoop" /\ target = "dir") =>
        /\ Range(files) =
               {path \in FilesOutsideSkippedDirectories : ~SkippedName(BaseName(path))}
        /\ \A i \in 1..Len(files) :
               \A d \in 1..Len(files[i]) : ~SkippedName(files[i][d])

\* A tree with a hidden file, a hidden directory, node_modules and a nested
\* directory, each holding a file with a recognized extension, has been walked.
C18_Witness ==
    /\ pc = "analyzeLoop"
    /\ target = "dir"
    /\ \E h, g, n, c \in tree :
           /\ Universe[h].path = <<NameHiddenTs>>
           /\ Universe[g].path = <<NameGit, NameCJs>>
           /\ Universe[n].path = <<NameNodeModules, NameCJs>>
           /\ Universe[c].path = <<NameSrc, NameCfg, NameATs>>
    /\ Len(files) >= 2


\* ============================================ claims, handleEditCommand gates
\* C14 (as amended): the target file is overwritten at most once, and only
\* after either the autoApply option was given, and then confirmProceed was not
\* called, or confirmProceed was called exactly once and returned accept.
C14_OverwriteOnlyAfterAutoApplyOrAcceptedGate ==
    fs.writes > 0 =>
        /\ fs.writes = 1
        /\ shouldApply
        /\ \/ options.autoApply /\ confirmCalls = 0
           \/ ~options.autoApply /\ confirmCalls = 1

\* C14 (as claimed): for every combination of options the target file is
\* overwritten only after confirmProceed was called exactly once and returned
\* accept.
C14_OverwriteOnlyAfterAcceptedGate ==
    fs.writes > 0 => (confirmCalls = 1 /\ shouldApply)

\* The gate was asked once, accepted, and the file has been overwritten.
C14_Witness ==
    /\ fs.writes = 1
    /\ ~options.autoApply
    /\ confirmCalls = 1
    /\ fs.target # currentContent

\* C15: when options.backup is not false, every overwrite of the target file
\* happens in a state where a backup holding the content the file has before
\* the overwrite is already written.
C15_BackupWrittenBeforeOverwrite ==
    [][(fs'.writes > fs.writes /\ options.backup # "false") =>
           (fs.backups # <<>> /\ fs.backups[Len(fs.backups)] = fs.target)]_vars

\* The file was overwritten with a different content, with the backup option
\* left undefined, and the backup holds the content read.
C15_Witness ==
    /\ fs.writes = 1
    /\ options.backup = "undefined"
    /\ fs.backups = <<currentContent>>
    /\ fs.target # currentContent

\* C16: in dry-run mode no file is created or modified, whatever the other
\* options are: neither a backup file nor the target file is written.
C16_DryRunNeverWrites ==
    options.dryRun => (fs.backups = <<>> /\ fs.writes = 0)


\* ================================================== claims, analyzeCommand
\* The oracle call of the file failed: it rejected or resolved without a text.
OracleFailed(o) == o.kind \in {"rejected", "noText"} \/ (o.kind = "text" /\ o.text = <<>>)

\* The oracle resolved with a text that JSON.parse does not accept.
Malformed(o) == o.kind = "text" /\ o.text # <<>> /\ ~QJSONParse(JsonMatch(o.text)).ok

\* Empty issues, empty suggestions and the metrics of a file that was not
\* analysed.
IsNeutral(r) ==
    /\ r.issues = <<>>
    /\ r.suggestions = <<>>
    /\ r.metrics = Metrics(0, 50, "fair", "moderate")

\* C11: in directory analysis no failure of one file aborts the batch: after
\* every file tried, whatever failed, the process has not exited, there is one
\* result per file tried, and the files whose read or oracle call failed have
\* empty issues, empty suggestions and neutral metrics.
C11_FileFailureNeverAbortsBatch ==
    (target = "dir" /\ outcomes # <<>>) =>
        /\ pc # "exit1"
        /\ Len(results) = Len(outcomes)
        /\ \A i \in 1..Len(results) :
               (outcomes[i].kind = "readError" \/ OracleFailed(outcomes[i]))
                   => (results[i].file = files[i] /\ IsNeutral(results[i]))

\* The number of pairs <<i, u>> with u in 1..n(i): the sum of the n(i).
CountOver(rs, Amount(_)) ==
    Cardinality(UNION {{<<i, u>> : u \in 1..Amount(rs[i])} : i \in 1..Len(rs)})

\* C12: with exactly one failing file among the analysed files (oracle error,
\* empty oracle text, or text that does not parse), the totals equal the sums
\* over the other files, and the failing file is in the results with no issue,
\* no suggestion and neutral metrics.
C12_FailingFileContributesNothing ==
    summary.computed =>
        \A f \in 1..Len(results) :
            ( /\ OracleFailed(outcomes[f]) \/ Malformed(outcomes[f])
              /\ \A g \in 1..Len(results) :
                     g # f => ~(OracleFailed(outcomes[g]) \/ Malformed(outcomes[g])) )
            => LET others == SelectSeq(results, LAMBDA r : r.file # files[f])
               IN /\ summary.totalIssues = CountOver(others, LAMBDA r : Len(r.issues))
                  /\ summary.totalSuggestions =
                         CountOver(others, LAMBDA r : Len(r.suggestions))
                  /\ IsNeutral(results[f])

\* C13: after all files are processed the total of issues and the total of
\* suggestions are the sums over all results, and each average is the sum of
\* the metric over all results, failed files included, divided by the number
\* of results, which is the number of files.
C13_TotalsAndAveragesOverAllResults ==
    summary.computed =>
        /\ summary.totalIssues = CountOver(results, LAMBDA r : Len(r.issues))
        /\ summary.totalSuggestions = CountOver(results, LAMBDA r : Len(r.suggestions))
        /\ summary.sumComplexity = CountOver(results, LAMBDA r : r.metrics.complexity)
        /\ summary.sumMaintainability =
               CountOver(results, LAMBDA r : r.metrics.maintainabilityIndex)
        /\ summary.count = Len(files)
        /\ summary.count = Len(results)

\* Three files were summarized: one whose oracle call failed and two with
\* issues.
C13_Witness ==
    /\ summary.computed
    /\ Len(results) = 3
    /\ OracleFailed(outcomes[1])
    /\ results[2].issues # <<>>
    /\ results[3].issues # <<>>
    /\ summary.totalIssues >= 2
    /\ summary.sumMaintainability >= 150

\* C17 (as amended): when the target does not exist, handleEditCommand, and
\* analyzeCommand when watch mode is not requested, only ever go on to the exit
\* with code 1: nothing is read, no backup is written, the oracle is not
\* called, no file is analysed and no result is produced.
C17_MissingTargetExitsFirst ==
    /\ (target = "none" /\ ~fs.exists) =>
           /\ pc \in {"start", "exit1"}
           /\ currentContent = <<>> /\ lines = <<>>
           /\ fs.backups = <<>> /\ fs.writes = 0
           /\ response = NoResponse
           /\ ~sessionSaved
    /\ (target = "missing" /\ ~aopts.watch) =>
           /\ pc \in {"analyzeCommand", "analyzeCodebase", "exit1"}
           /\ files = <<>> /\ outcomes = <<>> /\ results = <<>>
           /\ ~summary.computed

\* C17 (as claimed): the same for every invocation of analyzeCommand on a
\* missing target.
C17_MissingTargetAlwaysExits ==
    /\ (target = "none" /\ ~fs.exists) =>
           /\ pc \in {"start", "exit1"}
           /\ fs.backups = <<>> /\ fs.writes = 0
           /\ response = NoResponse
    /\ target = "missing" =>
           /\ pc \in {"analyzeCommand", "analyzeCodebase", "exit1"}
           /\ results = <<>>

\* analyzeCommand, configured and not in watch mode, has exited on a missing
\* target.
C17_Witness ==
    /\ target = "missing"
    /\ hasConfig
    /\ ~aopts.watch
    /\ pc = "exit1"

\* C19: every result of the quality analysis has a complexity in 1..10, a
\* maintainability index in 0..100, a performance and a security of their
\* enumerations.
C19_MetricsInRange ==
    \A i \in 1..Len(results) :
        /\ results[i].metrics.complexity \in 1..10
        /\ results[i].metrics.maintainabilityIndex \in 0..100
        /\ results[i].metrics.performance \in {"excellent", "good", "fair", "poor"}
        /\ results[i].metrics.security \in {"secure", "moderate", "vulnerable"}

\* C20: in the quality analysis the result of a file whose oracle text does not
\* parse is the result the same file gets when the oracle call fails.
C20_MalformedRecoveredAsOracleFailure ==
    \A i \in 1..Len(results) :
        Malformed(outcomes[i]) => results[i] = CatchResult(files[i])


\* ======================================= claims, analyzeAndGenerateEdits
\* C21: analyzeAndGenerateEdits never raises: whatever the configuration and
\* the oracle do, the function does not end by throwing.
C21_AnalysisNeverRaises ==
    pc # "threw"

\* The segments of the readable files among the first n context files, in
\* list order.
ReadableSegments(n) ==
    LET readable == SelectSeq(SubSeq(contextFiles, 1, n), LAMBDA f : f.readable)
        Concat[i \in 0..Len(readable)] ==
            IF i = 0 THEN <<>> ELSE Concat[i - 1] \o ContextSegment(readable[i])
    IN Concat[Len(readable)]

\* C23: once the configuration is there, building the request does not fail
\* whatever context files cannot be read: after each iteration contextContent
\* holds the contents of the readable files met, in list order, and nothing of
\* the unreadable ones; every file is passed, and the oracle is invoked
\* exactly once.
C23_UnreadableContextFilesAreSkipped ==
    /\ (pc = "threw") => ~hasConfig
    /\ (pc \in {"contextLoop", "generateContent", "returned"}) =>
           contextContent = ReadableSegments(contextIndex)
    /\ (pc \in {"generateContent", "returned"}) =>
           /\ contextIndex = Len(contextFiles)
           /\ calls = <<1>>
    /\ (pc = "contextLoop") => calls = <<>>

\* A list with an unreadable file between two readable ones went into the
\* request, and the oracle has answered.
C23_Witness ==
    /\ pc = "returned"
    /\ Len(contextFiles) = 3
    /\ contextFiles[1].readable
    /\ ~contextFiles[2].readable
    /\ contextFiles[3].readable
    /\ contextFiles[1].name # contextFiles[3].name
    /\ contextContent = ContextSegment(contextFiles[1]) \o ContextSegment(contextFiles[3])
    /\ calls = <<1>>


\* ============================================== claims, displayResults
\* Some result has an issue of type style or maintainability.
HasFixableIssue ==
    \E i \in 1..Len(results) :
        \E j \in 1..Len(results[i].issues) :
            results[i].issues[j].type \in {"style", "maintainability"}

\* C22: in the quality analysis the gate is invoked, and issues are reported
\* fixed, only when auto-fix is enabled and some issue of type style or
\* maintainability exists among the results.
C22_GateOnlyForFixableIssues ==
    (target # "none" /\ (confirmCalls > 0 \/ autoFixed # <<>>)) =>
        (aopts.fix /\ HasFixableIssue)

\* C29: whenever displayResults computes the two averages, the number of
\* results they are divided by is at least 1.
C29_AverageOverAtLeastOneResult ==
    summary.computed => summary.count >= 1


\* ========================================= claims, getLanguageFromExtension
\* The tag of the lower-cased extension in a map, "text" when it has none.
TagOfLowerCased(map, ext) ==
    IF ToLowerCase(ext) \in DOMAIN map THEN map[ToLowerCase(ext)] ELSE "text"

\* C24: each classifier returns, for every extension, the tag its map gives
\* to the lower-cased extension, and "text" when that is not mapped.
C24_ClassifierMapsLowerCasedExtension ==
    /\ (pc = "classifiedForEdit") => promptLanguage = TagOfLowerCased(LanguageMap, fileExt)
    /\ (pc = "classifiedForAnalysis") =>
           promptLanguage = TagOfLowerCased(AnalyzeLanguageMap, fileExt)


\* ================================================ claims, applyEdits order
\* The scenario: a file of four lines, the range (1,1) with three replacement
\* lines and the range (3,5), in either order.
IsScenario ==
    /\ lines = FileLines(4)
    /\ Len(suggestions) = 2
    /\ \E i, j \in 1..2 :
           /\ i # j
           /\ suggestions[i].startLine = 1 /\ suggestions[i].endLine = 1
           /\ suggestions[i].suggestedLines = << <<"Y">>, <<"Z">>, <<"W">> >>
           /\ suggestions[j].startLine = 3 /\ suggestions[j].endLine = 5

\* C25: the suggestions are processed in descending order of startLine, each
\* bounds check being made on the lines as modified by the suggestions
\* processed before; in the scenario (3,5) comes first and is skipped on the
\* four unmodified lines, then (1,1) is applied, and the result has six lines,
\* the last three being the original lines 2 to 4.
C25_DescendingOrderOnModifiedLines ==
    /\ (pc \in {"applyLoop", "applyDone"}) =>
           /\ \A i, j \in 1..Len(sortedSuggestions) :
                  i < j => sortedSuggestions[i].startLine >= sortedSuggestions[j].startLine
           /\ modifiedLines = EditAll(lines, SubSeq(sortedSuggestions, 1, k))
    /\ (IsScenario /\ pc = "applyLoop") =>
           /\ sortedSuggestions[1].startLine = 3
           /\ k = 1 => modifiedLines = lines
           /\ k = 2 => Len(modifiedLines) = 6
    /\ (IsScenario /\ pc = "applyDone") =>
           result = Join(<< <<"Y">>, <<"Z">>, <<"W">>, <<"b">>, <<"c">>, <<"d">> >>)

\* The scenario has run to its end.
C25_Witness ==
    /\ IsScenario
    /\ pc = "applyDone"
    /\ suggestions[1].startLine = 1
    /\ Len(Split(result)) = 6

\* The list with every originalLines replaced by lines the file does not hold.
WithOtherOriginalLines(S) ==
    [i \in 1..Len(S) |-> [S[i] EXCEPT !.originalLines = << <<"z">>, <<"z">> >>]]

\* C26: the content produced does not depend on originalLines: the list that
\* differs only in its originalLines gives the same result, and a single
\* suggestion in range is applied also when its originalLines are not the
\* lines at its range.
C26_ResultIndependentOfOriginalLines ==
    (pc = "applyDone") =>
        /\ result = ApplyEdits(lines, WithOtherOriginalLines(suggestions))
        /\ (Len(suggestions) = 1 /\ InRange(lines, suggestions[1])
               /\ SubSeq(lines, suggestions[1].startLine, suggestions[1].endLine)
                      # suggestions[1].originalLines)
           => result = Join(Splice(lines, suggestions[1].startLine - 1,
                                   suggestions[1].endLine - suggestions[1].startLine + 1,
                                   suggestions[1].suggestedLines))

\* One suggestion whose originalLines are not the lines at its range was
\* applied and changed the content.
C26_Witness ==
    /\ pc = "applyDone"
    /\ Len(suggestions) = 1
    /\ InRange(lines, suggestions[1])
    /\ SubSeq(lines, suggestions[1].startLine, suggestions[1].endLine)
           # suggestions[1].originalLines
    /\ result # currentContent


\* ================================================ claims, analyzeCodebase
\* C27: directory analysis processes one file at a time: at most one oracle
\* invocation is outstanding, the oracle is invoked at most once per file, a
\* file is started only when the results of all files before it are recorded,
\* and the results are in the order of the discovered files.
C27_OneFileAtATime ==
    /\ Cardinality(pending) <= 1
    /\ \A a, b \in 1..Len(calls) : a # b => calls[a] # calls[b]
    /\ \A c \in 1..Len(calls) : calls[c] \in 1..Len(files)
    /\ \A i \in pending : i = Len(results) + 1
    /\ Len(calls) = Len(results) + Cardinality(pending)
    /\ Len(results) <= Len(files)
    /\ \A i \in 1..Len(results) : results[i].file = files[i]

\* The second of three files is with the oracle; the first has its result.
C27_Witness ==
    /\ target = "dir"
    /\ Len(files) = 3
    /\ Len(results) = 1
    /\ calls = <<1, 2>>
    /\ pending = {2}


\* =========================================== claims, nothing to apply
\* C28: in the edit flow, when the analysis is the fallback or no suggestion
\* is left after the filter, handleEditCommand returns without calling the
\* gate, without overwriting the target file and without recording a session:
\* the content of the target file is the content read.
C28_NothingSuggestedNothingDone ==
    (Analyzed /\ (analysis = FallbackAnalysis(GetLanguageFromExtension(fileExt))
                      \/ Len(analysis.suggestions.list) = 0)) =>
        /\ pc \in {"display", "done"}
        /\ confirmCalls = 0
        /\ ~shouldApply
        /\ fs.writes = 0
        /\ fs.target = currentContent
        /\ ~sessionSaved

\* The oracle call was rejected, outside dry-run mode, and the command has
\* returned.
C28_Witness ==
    /\ pc = "done"
    /\ ~options.dryRun
    /\ response.kind = "rejected"
    /\ analysis = FallbackAnalysis(GetLanguageFromExtension(fileExt))
    /\ fs.target = currentContent


\* ================================================ claims, handleEditWithGit
Logged(log, cmds) == {i \in 1..Len(log) : log[i] \in cmds}

\* What holds of the commands run so far.
GitOrder(g) ==
    /\ (Logged(g.log, {"checkoutFailed"}) # {}) =>
           /\ pc = "gitReturned"
           /\ g.log = <<"checkoutFailed">>
           /\ currentContent = <<>> /\ response = NoResponse
           /\ fs.backups = <<>> /\ fs.writes = 0 /\ confirmCalls = 0
    /\ \A i \in Logged(g.log, {"push", "pushFailed"}) : i > 1 /\ g.log[i - 1] = "commit"
    /\ \A i \in Logged(g.log, {"commit", "commitFailed"}) : i > 1 /\ g.log[i - 1] = "add"

\* C30: when the creation of the branch fails the edit is not performed and
\* nothing is committed or pushed; a push is run only right after the commit
\* of the same invocation succeeded; and git add and git commit are run only
\* in the step that follows the return of handleEditCommand.
C30_GitStepsInOrder ==
    [][ /\ GitOrder(git)'
        /\ (Logged(git'.log, {"add", "addFailed"}) # Logged(git.log, {"add", "addFailed"}))
               => pc = "done" ]_vars

\* The branch was created, the edit was applied, and the change was
\* committed and pushed.
C30_Witness ==
    /\ pc = "gitReturned"
    /\ git.log = <<"checkout", "add", "commit", "push">>
    /\ fs.writes = 1
    /\ sessionSaved

====
